---- MODULE Spec2Model ----
(***************************************************************************)
(* Student-health risk pipeline: roster ledger (CSV read-modify-write),    *)
(* risk scoring and alert sealing, history buffer, therapist dashboard.    *)
(* Request handlers are synchronous FastAPI endpoints, so they run on a    *)
(* thread pool: each worker below is one request thread, and the steps of  *)
(* two workers interleave at every access to shared state (the roster      *)
(* file, the alert directory, RECENT_ANALYSES, THERAPIST_SESSIONS).        *)
(***************************************************************************)
EXTENDS Integers, Sequences, FiniteSets, TLC

(***************************************************************************)
(* Bounds of the model.                                                    *)
(***************************************************************************)
\* number of requests started in one behaviour
MaxCalls == 2

Workers == {"w1", "w2"}

(***************************************************************************)
(* Roster columns.                                                         *)
(***************************************************************************)
REQUIRED_ROSTER_COLUMNS == <<"first_name", "last_name", "student_id">>

ROSTER_STATUS_COLUMNS == <<"has_extra", "hipaa_consent">>

ROSTER_CLASS_COLUMNS ==
    <<"class_one", "class_2", "class_3", "class_4", "class_5", "class_6",
      "class_7", "class_8", "extra_swipe">>

ROSTER_EXTRA_CREDIT_COLUMNS ==
    <<"extra_credit_class_1", "extra_credit_class_2", "extra_credit_class_3",
      "extra_credit_class_4", "extra_credit_class_5", "extra_credit_class_6",
      "extra_credit_class_7", "extra_credit_class_8", "extra_credit_extra_swipe">>

EXTRA_SWIPE_DEFAULT_NAME == "Add one extra dining swipe"

Range(seq) == {seq[i] : i \in DOMAIN seq}

\* dict(zip(ROSTER_CLASS_COLUMNS, ROSTER_EXTRA_CREDIT_COLUMNS))
CLASS_TO_EXTRA_CREDIT ==
    [k \in Range(ROSTER_CLASS_COLUMNS) |->
        ROSTER_EXTRA_CREDIT_COLUMNS[
            CHOOSE i \in DOMAIN ROSTER_CLASS_COLUMNS : ROSTER_CLASS_COLUMNS[i] = k]]

OptionalColumns ==
    Range(ROSTER_CLASS_COLUMNS) \cup Range(ROSTER_EXTRA_CREDIT_COLUMNS)
        \cup Range(ROSTER_STATUS_COLUMNS)

(***************************************************************************)
(* Python values held in a dataframe cell.  A CSV cell is text; pandas     *)
(* reads an empty or NA-like cell as the float NaN and everything else     *)
(* (dtype=str) as a string; the code later stores bools and ints.          *)
(***************************************************************************)
NaN == [nan |-> TRUE]

PyStr(s) == [s |-> s]

PyInt(n) == [n |-> n]

PyBool(b) == [b |-> b]

IsNaN(v) == "nan" \in DOMAIN v

IsStr(v) == "s" \in DOMAIN v

IsInt(v) == "n" \in DOMAIN v

IsBool(v) == "b" \in DOMAIN v

\* decimal text of the small integers the ledger can hold
IntText(n) ==
    CASE n = 0 -> "0" [] n = 1 -> "1" [] n = 2 -> "2" [] n = 3 -> "3"
      [] n = 4 -> "4" [] n = 5 -> "5" [] n = 6 -> "6" [] n = -1 -> "-1"
      [] OTHER -> "int"

\* str(value)
ToText(v) ==
    IF IsNaN(v) THEN "nan"
    ELSE IF IsInt(v) THEN IntText(v.n)
    ELSE IF IsBool(v) THEN (IF v.b THEN "True" ELSE "False")
    ELSE v.s

\* bool(value): NaN is a non-zero float, hence truthy
Truthy(v) ==
    IF IsNaN(v) THEN TRUE
    ELSE IF IsInt(v) THEN v.n # 0
    ELSE IF IsBool(v) THEN v.b
    ELSE v.s # ""

\* str.strip() on the texts that occur in the model
Strip(s) ==
    CASE s = " 900123456 " -> "900123456"
      [] s = " yes " -> "yes"
      [] s = " class_one " -> "class_one"
      [] s = "   " -> ""
      [] s = " alice " -> "alice"
      [] s = " pw1 " -> "pw1"
      [] s = " pw2 " -> "pw2"
      [] OTHER -> s

\* str.lower() on the texts that occur in the model
Lower(s) ==
    CASE s = "True" -> "true"
      [] s = "False" -> "false"
      [] s = "Yes" -> "yes"
      [] s = "NaN" -> "nan"
      [] s = "None" -> "none"
      [] s = "Class_One" -> "class_one"
      [] s = "EXTRA_SWIPE" -> "extra_swipe"
      [] s = "Suicidal" -> "suicidal"
      [] s = "Depression" -> "depression"
      [] s = "Stress" -> "stress"
      [] s = "Anxiety" -> "anxiety"
      [] s = "Rita" -> "rita"
      [] s = "T1" -> "t1"
      [] s = "T2" -> "t2"
      [] OTHER -> s

\* str(value or "")
TextOrEmpty(v) == IF Truthy(v) THEN ToText(v) ELSE ""

\* int(float(text)); "none" stands for the ValueError
FloatIntOfText(s) ==
    CASE s = "0" -> 0 [] s = "1" -> 1 [] s = "2" -> 2 [] s = "3" -> 3
      [] s = "4" -> 4 [] s = "5" -> 5 [] s = "6" -> 6
      [] s = "1.0" -> 1 [] s = "1.9" -> 1 [] s = "0.5" -> 0
      [] s = "-1" -> -1
      [] OTHER -> 0

_parse_extra_credit(raw_value) ==
    IF IsNaN(raw_value) THEN 0
    ELSE IF IsInt(raw_value) THEN raw_value.n
    ELSE IF IsBool(raw_value) THEN (IF raw_value.b THEN 1 ELSE 0)
    ELSE FloatIntOfText(raw_value.s)

TRUE_FLAG_TEXTS == {"1", "true", "yes", "y", "on"}

_parse_bool_flag(raw_value) ==
    IF IsBool(raw_value) THEN raw_value.b
    ELSE Lower(Strip(TextOrEmpty(raw_value))) \in TRUE_FLAG_TEXTS

(***************************************************************************)
(* The roster file and its dataframe.                                      *)
(*   file: [exists, header (set of column names), rows (sequence of        *)
(*          functions header -> cell text)]                                *)
(*   dataframe: [header, rows (sequence of functions header -> value)]     *)
(***************************************************************************)
\* cell texts pandas.read_csv turns into NaN
NA_TEXTS == {"", "nan", "NaN", "NA", "N/A", "NULL", "null", "n/a"}

ReadCell(text) == IF text \in NA_TEXTS THEN NaN ELSE PyStr(text)

\* a writer that leaves bool cells empty
WriteCellDroppingFlags(v) == IF IsNaN(v) \/ IsBool(v) THEN "" ELSE ToText(v)

\* DataFrame.to_csv: NaN is written as the empty cell
WriteCell(v) == IF IsNaN(v) THEN "" ELSE ToText(v)

\* row.get(col): None (falsy, str "None") when the column is absent
RowGet(row, col) == IF col \in DOMAIN row THEN row[col] ELSE PyStr("")

\* "ok" with the dataframe, or the HTTPException the load raises
_load_roster_dataframe(file) ==
    IF ~file.exists THEN [err |-> 500, detail |-> "roster file not found"]
    ELSE
      LET migrated ==
            IF "has_extra" \notin file.header /\ "has_extra_credit" \in file.header
            THEN file.header \cup {"has_extra"} ELSE file.header
          missing == {c \in Range(REQUIRED_ROSTER_COLUMNS) : c \notin migrated}
          header == migrated \cup OptionalColumns
          LoadRow(frow) ==
            LET raw == [c \in header |->
                          IF c \in file.header THEN ReadCell(frow[c])
                          ELSE IF c = "has_extra" /\ "has_extra_credit" \in file.header
                               THEN ReadCell(frow["has_extra_credit"])
                          ELSE PyStr("")]
            IN [raw EXCEPT !["has_extra"] = PyBool(_parse_bool_flag(raw["has_extra"])),
                           !["hipaa_consent"] = PyBool(_parse_bool_flag(raw["hipaa_consent"]))]
      IN IF missing # {} THEN [err |-> 500, detail |-> "missing required columns"]
         ELSE [err |-> 0,
               df |-> [header |-> header,
                       rows |-> [i \in DOMAIN file.rows |-> LoadRow(file.rows[i])]]]

\* df.to_csv(STUDENT_ROSTER_PATH, index=False)
ToCsv(df) ==
    [exists |-> TRUE,
     header |-> df.header,
     rows |-> [i \in DOMAIN df.rows |-> [c \in df.header |-> WriteCell(df.rows[i][c])]]]

RECURSIVE SumOver(_, _)
SumOver(f, S) ==
    IF S = {} THEN 0
    ELSE LET x == CHOOSE y \in S : TRUE IN f[x] + SumOver(f, S \ {x})

_total_extra_credit(row) ==
    SumOver([c \in Range(ROSTER_EXTRA_CREDIT_COLUMNS) |-> _parse_extra_credit(RowGet(row, c))],
            Range(ROSTER_EXTRA_CREDIT_COLUMNS))

\* index of the first row whose stripped student_id equals the stripped id,
\* 0 when none does
FirstMatch(df, normalized) ==
    LET hits == {i \in DOMAIN df.rows : Strip(ToText(df.rows[i]["student_id"])) = normalized}
    IN IF hits = {} THEN 0 ELSE CHOOSE i \in hits : \A j \in hits : i <= j

\* [err, idx]: 400 for an empty id, 403 for an unknown one
_get_student_row(df, student_id) ==
    LET normalized == Strip(student_id)
        idx == FirstMatch(df, normalized)
    IN IF normalized = "" THEN [err |-> 400, detail |-> "Student ID is required.", idx |-> 0]
       ELSE IF idx = 0 THEN [err |-> 403, detail |-> "Student ID not recognized.", idx |-> 0]
       ELSE [err |-> 0, detail |-> "", idx |-> idx]


_extract_class_entries(row) ==
    LET Name(c) ==
          LET stripped == Strip(TextOrEmpty(RowGet(row, c)))
          IN IF c = "extra_swipe" /\ stripped = "" THEN EXTRA_SWIPE_DEFAULT_NAME ELSE stripped
        Listed(c) == Name(c) # "" /\ Lower(Name(c)) \notin {"nan", "none"}
    IN [c \in {k \in Range(ROSTER_CLASS_COLUMNS) : Listed(k)} |->
          [key |-> c,
           name |-> Name(c),
           extra_credit_column |-> CLASS_TO_EXTRA_CREDIT[c],
           extra_credit_points |-> _parse_extra_credit(RowGet(row, CLASS_TO_EXTRA_CREDIT[c]))]]

\* the roster dict: stripped id -> index of the LAST row that carries it
\* (rows with a NaN or blank id are dropped)
_load_student_roster(df) ==
    LET kept == {i \in DOMAIN df.rows :
                    /\ ~IsNaN(df.rows[i]["student_id"])
                    /\ Strip(ToText(df.rows[i]["student_id"])) # ""}
        ids == {Strip(ToText(df.rows[i]["student_id"])) : i \in kept}
    IN [sid \in ids |->
          CHOOSE i \in kept :
            /\ Strip(ToText(df.rows[i]["student_id"])) = sid
            /\ \A j \in kept : Strip(ToText(df.rows[j]["student_id"])) = sid => j <= i]

\* a lookup that compares the id as given, blanks included
ValidateUntrimmed(file, student_id, include_classes) ==
    LET loaded == _load_roster_dataframe(file)
    IN IF student_id = "" THEN [err |-> 400, detail |-> "Student ID is required."]
       ELSE IF loaded.err # 0 THEN [err |-> loaded.err, detail |-> loaded.detail]
       ELSE IF student_id \notin DOMAIN _load_student_roster(loaded.df)
       THEN [err |-> 403, detail |-> "Student ID not recognized."]
       ELSE [err |-> 0, detail |-> "", student_id |-> student_id,
             has_extra |-> FALSE, has_consent |-> FALSE, classes |-> << >>]

validate_student_id(file, student_id, include_classes) ==
    LET normalized == Strip(student_id)
        loaded == _load_roster_dataframe(file)
    IN IF normalized = "" THEN [err |-> 400, detail |-> "Student ID is required."]
       ELSE IF loaded.err # 0 THEN [err |-> loaded.err, detail |-> loaded.detail]
       ELSE LET roster == _load_student_roster(loaded.df)
            IN IF DOMAIN roster = {} THEN [err |-> 500, detail |-> "Student roster is empty."]
               ELSE IF normalized \notin DOMAIN roster
                    THEN [err |-> 403, detail |-> "Student ID not recognized."]
               ELSE LET row == loaded.df.rows[roster[normalized]]
                    IN [err |-> 0, detail |-> "",
                        student_id |-> normalized,
                        has_extra |-> _parse_bool_flag(row["has_extra"]),
                        has_consent |-> _parse_bool_flag(row["hipaa_consent"]),
                        classes |-> IF include_classes THEN _extract_class_entries(row)
                                    ELSE << >>]

\* the claimed-already test of _increment_extra_credit
AlreadyClaimedBuggy(row) ==
    _total_extra_credit(row) >= 1 /\ _parse_bool_flag(RowGet(row, "has_extra"))

AlreadyClaimed(row) ==
    _total_extra_credit(row) >= 1 \/ _parse_bool_flag(RowGet(row, "has_extra"))

\* the part of _increment_extra_credit after the class key and the points
\* passed: the claimed-already test, the class lookup and the update
IncrementRow(df, idx, normalized_key, extra_col, row, points) ==
    IF AlreadyClaimed(row)
    THEN [err |-> 400, detail |-> "Extra credit already claimed for this student."]
    ELSE IF Strip(TextOrEmpty(RowGet(row, normalized_key))) = ""
    THEN [err |-> 400, detail |-> "Selected class was not found for this student."]
    ELSE [err |-> 0, detail |-> "",
          class_key |-> normalized_key,
          class_name |-> Strip(TextOrEmpty(RowGet(row, normalized_key))),
          extra_credit_column |-> extra_col,
          total_points |-> _parse_extra_credit(RowGet(row, extra_col)) + points,
          idx |-> idx,
          df |-> [df EXCEPT
                    !.rows[idx][extra_col] =
                        PyInt(_parse_extra_credit(RowGet(row, extra_col)) + points),
                    !.rows[idx]["has_extra"] = PyBool(TRUE)]]

\* the argument checks of _increment_extra_credit on the loaded frame
IncrementChecks(df, got, normalized_key, points) ==
    IF got.err # 0 THEN [err |-> got.err, detail |-> got.detail]
    ELSE IF normalized_key = "" THEN [err |-> 400, detail |-> "Class selection is required."]
    ELSE IF normalized_key \notin DOMAIN CLASS_TO_EXTRA_CREDIT
    THEN [err |-> 400, detail |-> "Invalid class selection."]
    ELSE IF points # 1
    THEN [err |-> 400, detail |-> "Points per request must be exactly 1."]
    ELSE IncrementRow(df, got.idx, normalized_key, CLASS_TO_EXTRA_CREDIT[normalized_key],
                      df.rows[got.idx], points)

IncrementLoaded(loaded, student_id, class_key, points) ==
    IF loaded.err # 0 THEN [err |-> loaded.err, detail |-> loaded.detail]
    ELSE IncrementChecks(loaded.df, _get_student_row(loaded.df, student_id),
                         Lower(Strip(class_key)), points)

\* _increment_extra_credit up to, not including, df.to_csv: the outcome of
\* the checks and, when they pass, the dataframe to write back
_increment_extra_credit(file, student_id, class_key, points) ==
    IncrementLoaded(_load_roster_dataframe(file), student_id, class_key, points)

\* _set_student_consent up to, not including, df.to_csv
_set_student_consent(file, student_id, consent) ==
    LET loaded == _load_roster_dataframe(file)
    IN IF loaded.err # 0 THEN [err |-> loaded.err, detail |-> loaded.detail]
       ELSE LET got == _get_student_row(loaded.df, student_id)
            IN IF got.err # 0 THEN [err |-> got.err, detail |-> got.detail]
               ELSE [err |-> 0, detail |-> "",
                     df |-> [loaded.df EXCEPT
                               !.rows[got.idx]["hipaa_consent"] = PyBool(consent)]]


(***************************************************************************)
(* Risk scoring.  A score set is a function label -> percentage.  A text   *)
(* is known to the engine only through what the code computes from it:     *)
(* whether it is blank, its word count, the keyword and pattern matches    *)
(* and the classifier outputs on the whole text and on its segments.       *)
(***************************************************************************)
MIN_RESPONSE_WORDS == 50

MENTAL_ACTIVE_THRESHOLD == 50

SUICIDAL_FALLBACK_THRESHOLD == 70

Max(a, b) == IF a >= b THEN a ELSE b

Min(a, b) == IF a <= b THEN a ELSE b

\* the keys of a score set that equal label case-insensitively
KeysLike(scores, label) == {k \in DOMAIN scores : Lower(k) = Lower(label)}

_get_score_case_insensitive(scores, label) ==
    IF KeysLike(scores, label) = {} THEN 0
    ELSE scores[CHOOSE k \in KeysLike(scores, label) : TRUE]

\* the key the assignment writes: the existing one, else label itself
AssignTarget(scores, label) ==
    IF KeysLike(scores, label) = {} THEN label
    ELSE CHOOSE k \in KeysLike(scores, label) : TRUE

_assign_score_case_insensitive(scores, label, value) ==
    [k \in DOMAIN scores \cup {AssignTarget(scores, label)} |->
        IF k = AssignTarget(scores, label) THEN value ELSE scores[k]]

\* segments shorter than this are dropped
MIN_SEGMENT_CHARS == 20

\* _segment_text on the pieces re.split yields, each with its stripped
\* length and the suicidal score the classifier gives it
_segment_text(parts) == SelectSeq(parts, LAMBDA seg : seg.chars >= MIN_SEGMENT_CHARS)

\* max over the retained segments' suicidal scores; -1 stands for None
_max_suicidal_over_segments(segments) ==
    IF segments = << >> THEN -1
    ELSE CHOOSE m \in Range(segments) : \A x \in Range(segments) : x <= m

\* the cap on rule boosts
BOOST_CAP == 60

\* the +10 rule's trigger: semantic patterns with co-occurring distress
SemanticRuleFires(patterns_hit, mentions_suicide, co_occurs) ==
    patterns_hit # {} /\ co_occurs

\* the rules without the final cap
BoostRulesUncapped(suicidal_base, depression_score, stress_score, sadness_score, fear_score, mentions_suicide, patterns_hit) ==
    LET rule1 == patterns_hit # {} /\ (depression_score >= 60 \/ stress_score >= 70
                                        \/ sadness_score >= 60 \/ fear_score >= 70)
        rule2 == depression_score >= 70 /\ sadness_score >= 70
        rule3 == stress_score >= 80 /\ suicidal_base > 5
        b1 == IF rule1 THEN suicidal_base + 10 ELSE suicidal_base
        b2 == IF rule2 THEN Max(b1, suicidal_base + 15) ELSE b1
        b3 == IF rule3 THEN Max(b2, 40) ELSE b2
    IN [boosted |-> b3, reasons |-> << >>, mentions_suicide |-> mentions_suicide,
        raw |-> suicidal_base, patterns_hit |-> patterns_hit]

\* the rules without the stress floor of 40
BoostRulesNoFloor(suicidal_base, depression_score, stress_score, sadness_score, fear_score, mentions_suicide, patterns_hit) ==
    LET rule2 == depression_score >= 70 /\ sadness_score >= 70
        b2 == IF rule2 THEN suicidal_base + 15 ELSE suicidal_base
    IN [boosted |-> Max(suicidal_base, Min(BOOST_CAP, b2)), reasons |-> << >>,
        mentions_suicide |-> mentions_suicide, raw |-> suicidal_base,
        patterns_hit |-> patterns_hit]

\* the rules of _boost_suicidal_score applied to the scores it looked up
BoostRules(suicidal_base, depression_score, stress_score, sadness_score, fear_score, mentions_suicide, patterns_hit) ==
    LET co_occurs == \/ depression_score >= 60
                     \/ stress_score >= 70
                     \/ sadness_score >= 60
                     \/ fear_score >= 70
        rule1 == SemanticRuleFires(patterns_hit, mentions_suicide, co_occurs)
        rule2 == depression_score >= 70 /\ sadness_score >= 70
        rule3 == stress_score >= 80 /\ suicidal_base > 5
        b1 == IF rule1 THEN Max(suicidal_base, suicidal_base + 10) ELSE suicidal_base
        b2 == IF rule2 THEN Max(b1, suicidal_base + 15) ELSE b1
        b3 == IF rule3 THEN Max(b2, 40) ELSE b2
    IN [boosted |-> Max(suicidal_base, Min(BOOST_CAP, b3)),
        reasons |-> (IF rule1 THEN <<"semantic+10">> ELSE << >>)
                      \o (IF rule2 THEN <<"depression-sadness+15">> ELSE << >>)
                      \o (IF rule3 THEN <<"stress-floor-40">> ELSE << >>),
        mentions_suicide |-> mentions_suicide,
        raw |-> suicidal_base,
        patterns_hit |-> patterns_hit]

\* the tuple _boost_suicidal_score returns, plus the score set it updated
BoostResult(rules, mental_scores) ==
    [boosted |-> rules.boosted,
     reasons |-> rules.reasons,
     mentions_suicide |-> rules.mentions_suicide,
     raw |-> rules.raw,
     patterns_hit |-> rules.patterns_hit,
     mental_scores |-> _assign_score_case_insensitive(mental_scores, "suicidal",
                                                      rules.boosted)]

_boost_suicidal_score(mental_scores, emotion_scores, text) ==
    BoostResult(BoostRules(_get_score_case_insensitive(mental_scores, "suicidal"),
                           _get_score_case_insensitive(mental_scores, "depression"),
                           _get_score_case_insensitive(mental_scores, "stress"),
                           _get_score_case_insensitive(emotion_scores, "sadness"),
                           _get_score_case_insensitive(emotion_scores, "fear"),
                           text.keywords # {},
                           text.patterns),
                mental_scores)

\* a sealing check that forgets the encryption library may be missing
ShouldEncryptIgnoringLibrary(cfg) == cfg.ALERT_ENCRYPTION_ENABLED

\* _should_encrypt_alert
_should_encrypt_alert(cfg) ==
    IF ~cfg.ALERT_ENCRYPTION_ENABLED THEN FALSE
    ELSE IF ~cfg.fernet THEN FALSE
    ELSE TRUE

NoAlert == [sealed |-> FALSE]

\* a sealing step that writes its artifacts whatever the configuration
EncryptAlways(cfg, base_name) ==
    [sealed |-> TRUE,
     ciphertext_path |-> <<base_name, "enc">>,
     key_path |-> <<base_name, "key">>]

\* _encrypt_alert_text: None, or the paths of the two artifacts named after
\* the fresh base name
_encrypt_alert_text(cfg, base_name) ==
    IF ~_should_encrypt_alert(cfg) THEN NoAlert
    ELSE [sealed |-> TRUE,
          ciphertext_path |-> <<base_name, "enc">>,
          key_path |-> <<base_name, "key">>]

\* a forced inclusion that does not ask for a keyword
ForceSuicidalFlagNoKeyword(flags, suicidal_label, suicidal_score, depression_score, mentions_suicide) ==
    IF suicidal_score >= MENTAL_ACTIVE_THRESHOLD \/ depression_score >= SUICIDAL_FALLBACK_THRESHOLD
    THEN [k \in DOMAIN flags \cup {suicidal_label} |->
            IF k = suicidal_label
            THEN Max(Max(suicidal_score, depression_score), MENTAL_ACTIVE_THRESHOLD)
            ELSE flags[k]]
    ELSE flags

\* the suicidal entry forced into the flag set; the flags unchanged when
\* neither condition holds
ForceSuicidalFlag(flags, suicidal_label, suicidal_score, depression_score, mentions_suicide) ==
    IF suicidal_score >= MENTAL_ACTIVE_THRESHOLD
    THEN [k \in DOMAIN flags \cup {suicidal_label} |->
            IF k = suicidal_label THEN suicidal_score ELSE flags[k]]
    ELSE IF depression_score >= SUICIDAL_FALLBACK_THRESHOLD /\ mentions_suicide
    THEN [k \in DOMAIN flags \cup {suicidal_label} |->
            IF k = suicidal_label
            THEN Max(Max(suicidal_score, depression_score), MENTAL_ACTIVE_THRESHOLD)
            ELSE flags[k]]
    ELSE flags

\* whether the analysis asks for sealing
SealRequested(cfg, mental_flags) ==
    cfg.MENTAL_IS_MULTI_LABEL /\ KeysLike(mental_flags, "suicidal") # {}

\* the mental-health classifier on the whole text: one score per label of
\* the model's vocabulary
MentalScores(cfg, text) == [l \in cfg.mental_labels |-> text.mental[l]]

\* chunk_max: the segment maximum when the model has a suicidal label and
\* the text has a retained segment; -1 stands for None
ChunkMax(cfg, text) ==
    IF KeysLike(MentalScores(cfg, text), "suicidal") # {}
    THEN _max_suicidal_over_segments(text.segments) ELSE -1

\* a scan that puts the segment maximum in place of the whole-text score
SegmentScanReplacing(whole, chunk_max) ==
    IF KeysLike(whole, "suicidal") # {} /\ chunk_max # -1
    THEN [k \in DOMAIN whole |->
            IF k \in KeysLike(whole, "suicidal") THEN chunk_max ELSE whole[k]]
    ELSE whole

\* the whole-text scores with the suicidal entry raised to the segment maximum
SegmentScan(whole, chunk_max) ==
    IF KeysLike(whole, "suicidal") # {} /\ chunk_max # -1
    THEN [k \in DOMAIN whole |->
            IF k \in KeysLike(whole, "suicidal") THEN Max(whole[k], chunk_max)
            ELSE whole[k]]
    ELSE whole

\* the flag set: every label at or over the threshold, then the forced
\* suicidal entry; empty in single-label mode
MentalFlags(cfg, boost) ==
    IF cfg.MENTAL_IS_MULTI_LABEL
    THEN ForceSuicidalFlag(
            [l \in {k \in DOMAIN boost.mental_scores :
                      boost.mental_scores[k] >= MENTAL_ACTIVE_THRESHOLD} |->
                boost.mental_scores[l]],
            AssignTarget(boost.mental_scores, "suicidal"),
            boost.boosted,
            _get_score_case_insensitive(boost.mental_scores, "depression"),
            boost.mentions_suicide)
    ELSE << >>

\* the sealing step: _encrypt_alert_text when the suicidal label is flagged
Seal(cfg, mental_flags, base_name) ==
    IF SealRequested(cfg, mental_flags)
    THEN _encrypt_alert_text(cfg, base_name) ELSE NoAlert

\* the alert metadata attached to the response
AlertMetadata(seal, boost, chunk_max) ==
    IF seal.sealed
    THEN [sealed |-> TRUE,
          ciphertext_path |-> seal.ciphertext_path,
          key_path |-> seal.key_path,
          suicidal_raw |-> boost.raw,
          suicidal_boosted |-> boost.boosted,
          suicidal_chunk_max |-> chunk_max,
          suicidal_boost_reasons |-> boost.reasons]
    ELSE NoAlert

\* the log lines the sealing step emits: nothing when sealing is switched
\* off, a warning when the library is missing, an info line when it sealed
SealLog(cfg, mental_flags) ==
    IF ~SealRequested(cfg, mental_flags) THEN << >>
    ELSE IF ~cfg.ALERT_ENCRYPTION_ENABLED THEN << >>
    ELSE IF ~cfg.fernet THEN <<"cannot encrypt high-risk submissions">>
    ELSE <<"Encrypted high-risk submission">>

Response(cfg, text, boost, chunk_max, mental_flags, seal) ==
    [academic_stress |-> text.academic,
     logged |-> SealLog(cfg, mental_flags),
     mental_health |-> boost.mental_scores,
     emotions |-> text.emotions,
     has_flags |-> cfg.MENTAL_IS_MULTI_LABEL,
     mental_health_flags |-> mental_flags,
     alert_metadata |-> AlertMetadata(seal, boost, chunk_max),
     seal_requests |-> IF SealRequested(cfg, mental_flags) THEN 1 ELSE 0,
     written |-> IF seal.sealed THEN {seal.ciphertext_path, seal.key_path} ELSE {}]

Flagged(cfg, text, base_name, boost, chunk_max, mental_flags) ==
    Response(cfg, text, boost, chunk_max, mental_flags,
             Seal(cfg, mental_flags, base_name))

Boosted(cfg, text, base_name, boost, chunk_max) ==
    Flagged(cfg, text, base_name, boost, chunk_max, MentalFlags(cfg, boost))

\* analyze_student_text: the response, plus the artifacts sealing wrote
analyze_student_text(cfg, text, base_name) ==
    Boosted(cfg, text, base_name,
            _boost_suicidal_score(SegmentScan(MentalScores(cfg, text), ChunkMax(cfg, text)),
                                  text.emotions, text),
            ChunkMax(cfg, text))

(***************************************************************************)
(* Therapist credentials and sessions.                                     *)
(*   credential file: [exists, mtime, rows (sequence of records of cell    *)
(*   texts under the lower-cased header names)]                            *)
(***************************************************************************)
\* the record one CSV row yields; usable only with username and password
CredentialRecord(row) ==
    [username |-> Strip(row.username),
     password |-> Strip(row.password),
     therapist_id |-> Strip(row.therapist_id),
     therapist_name |-> Strip(row.therapist_name),
     first_responder |-> Lower(Strip(row.first_responder)) \in TRUE_FLAG_TEXTS]

\* the rows read in order: records[username.lower()] = record, then
\* records.setdefault(therapist_id.lower(), record)
RECURSIVE ReadCredentialRows(_, _)
ReadCredentialRows(rows, records) ==
    IF rows = << >> THEN records
    ELSE LET record == CredentialRecord(Head(rows))
             by_name == [k \in DOMAIN records \cup {Lower(record.username)} |->
                            IF k = Lower(record.username) THEN record ELSE records[k]]
             alias == Lower(record.therapist_id)
             by_id == IF record.therapist_id = "" \/ alias \in DOMAIN by_name
                      THEN by_name
                      ELSE [k \in DOMAIN by_name \cup {alias} |->
                              IF k = alias THEN record ELSE by_name[k]]
         IN IF record.username = "" \/ record.password = ""
            THEN ReadCredentialRows(Tail(rows), records)
            ELSE ReadCredentialRows(Tail(rows), by_id)

\* a load that reads the file every time
LoadWithoutCache(file, cache, cache_mtime) ==
    IF ~file.exists THEN [records |-> << >>, cache |-> << >>, mtime |-> 0]
    ELSE [records |-> ReadCredentialRows(file.rows, << >>),
          cache |-> ReadCredentialRows(file.rows, << >>), mtime |-> file.mtime]

\* _load_therapist_credentials: the records returned and the cache left
_load_therapist_credentials(file, cache, cache_mtime) ==
    IF ~file.exists THEN [records |-> << >>, cache |-> << >>, mtime |-> 0]
    ELSE IF DOMAIN cache # {} /\ file.mtime = cache_mtime
    THEN [records |-> cache, cache |-> cache, mtime |-> cache_mtime]
    ELSE LET records == ReadCredentialRows(file.rows, << >>)
         IN [records |-> records, cache |-> records, mtime |-> file.mtime]

\* a credential check that looks the user up and never compares the password
ValidateWithoutPassword(entries, username, password) ==
    IF username = "" \/ password = "" THEN FALSE
    ELSE Lower(Strip(username)) \in DOMAIN entries

\* _validate_therapist_credentials, given the loaded records
_validate_therapist_credentials(entries, username, password) ==
    IF username = "" \/ password = "" THEN FALSE
    ELSE IF Lower(Strip(username)) \notin DOMAIN entries THEN FALSE
    ELSE entries[Lower(Strip(username))].password = Strip(password)

NoToken == 0

NoRecord == [username |-> ""]

\* _active_therapist_session: the session's username, "" for none
_active_therapist_session(sessions, token) ==
    IF token = NoToken THEN ""
    ELSE IF token \in DOMAIN sessions THEN sessions[token] ELSE ""

_get_therapist_record(entries, identifier) ==
    IF Lower(Strip(identifier)) \in DOMAIN entries
    THEN entries[Lower(Strip(identifier))] ELSE NoRecord

\* THERAPIST_SESSIONS[token] = username
_issue_therapist_session(sessions, token, username) ==
    [t \in DOMAIN sessions \cup {token} |-> IF t = token THEN username ELSE sessions[t]]

\* a logout that drops every session along with the one named
KillEverySession(sessions, token) ==
    IF token # NoToken /\ token \in DOMAIN sessions THEN << >> ELSE sessions

_kill_therapist_session(sessions, token) ==
    IF token # NoToken /\ token \in DOMAIN sessions
    THEN [t \in DOMAIN sessions \ {token} |-> sessions[t]]
    ELSE sessions

NoCredentials == [given |-> FALSE]

Basic(username, password) == [given |-> TRUE, username |-> username, password |-> password]

\* an authentication that trusts a live session without looking its user up
AuthenticateTrustingSession(entries, sessions, cookie, credentials, fresh) ==
    IF _active_therapist_session(sessions, cookie) # ""
    THEN [record |-> [username |-> _active_therapist_session(sessions, cookie),
                      first_responder |-> FALSE],
          token |-> NoToken, sessions |-> sessions]
    ELSE IF credentials.given
            /\ _validate_therapist_credentials(entries, credentials.username,
                                               credentials.password)
    THEN [record |-> _get_therapist_record(entries, credentials.username),
          token |-> fresh,
          sessions |-> _issue_therapist_session(sessions, fresh, credentials.username)]
    ELSE [record |-> NoRecord, token |-> NoToken, sessions |-> sessions]

\* _authenticate_therapist: the record ("" username for None), the token to
\* set (NoToken for None) and the session table left
_authenticate_therapist(entries, sessions, cookie, credentials, fresh) ==
    LET session_user == _active_therapist_session(sessions, cookie)
    IN IF session_user # ""
       THEN [record |-> _get_therapist_record(entries, session_user),
             token |-> NoToken, sessions |-> sessions]
       ELSE IF credentials.given
               /\ _validate_therapist_credentials(entries, credentials.username,
                                                  credentials.password)
       THEN [record |-> _get_therapist_record(entries, credentials.username),
             token |-> fresh,
             sessions |-> _issue_therapist_session(sessions, fresh, credentials.username)]
       ELSE [record |-> NoRecord, token |-> NoToken, sessions |-> sessions]

\* truthiness of an entry's alert_metadata
HasAlert(entry) == entry.alert_metadata.sealed

\* the entries the dashboard keeps for the viewer
ViewEntriesAll(history, is_first_responder) == history

ViewEntries(history, is_first_responder) ==
    SelectSeq(history, LAMBDA e : ~is_first_responder \/ HasAlert(e))

Reversed(seq) == [i \in 1..Len(seq) |-> seq[Len(seq) + 1 - i]]

(***************************************************************************)
(* State.                                                                  *)
(***************************************************************************)
VARIABLES
    config,        \* process-wide configuration, fixed at start-up
    rosterFile,    \* the roster CSV at STUDENT_ROSTER_PATH
    alertFiles,    \* artifacts under ALERT_OUTPUT_DIR
    RECENT_ANALYSES,
    pc,            \* per request thread: where its handler stands
    req,           \* per request thread: the request being handled
    df,            \* per request thread: the dataframe it loaded
    resp,          \* per request thread: the response of the finished call
    credFile,      \* the therapist CSV at THERAPIST_CREDENTIALS_PATH
    THERAPIST_AUTH_CACHE,
    THERAPIST_AUTH_MTIME,
    THERAPIST_SESSIONS,
    tokensIssued,  \* session tokens minted so far
    calls,         \* requests started so far
    awarded,       \* audit: successful extra-credit responses per student
    consentSaved   \* audit: students whose consent write-back completed

authVars == <<credFile, THERAPIST_AUTH_CACHE, THERAPIST_AUTH_MTIME, THERAPIST_SESSIONS,
              tokensIssued>>

vars == <<config, rosterFile, alertFiles, RECENT_ANALYSES, pc, req, df, resp,
          calls, awarded, consentSaved, authVars>>

NoReq == [op |-> "none"]

NoDf == [header |-> {}, rows |-> << >>]

NoResp == [status |-> 0]

\* history capacity (HACKATHON_HISTORY_LIMIT)
MAX_ANALYSIS_HISTORY == 2

(***************************************************************************)
(* Rosters, texts and deployments the behaviours start from.               *)
(***************************************************************************)
StudentA == "900123456"

StudentB == "900654321"

StudentIds == {StudentA, StudentB}

FullHeader == Range(REQUIRED_ROSTER_COLUMNS) \cup OptionalColumns

\* a row over FullHeader: the given cells, every other cell empty
Row(id, cells) ==
    [c \in FullHeader |->
        IF c = "student_id" THEN id
        ELSE IF c = "first_name" THEN "Ada"
        ELSE IF c = "last_name" THEN "Lee"
        ELSE IF c \in DOMAIN cells THEN cells[c]
        ELSE ""]

File(header, rows) ==
    [exists |-> TRUE,
     header |-> header,
     rows |-> [i \in DOMAIN rows |-> [c \in header |-> rows[i][c]]]]

MinimalHeader == Range(REQUIRED_ROSTER_COLUMNS) \cup Range(ROSTER_CLASS_COLUMNS)

\* both students unclaimed, no consent on file
RosterPlain ==
    File(FullHeader,
         <<Row(StudentA, [class_one |-> "Math", class_2 |-> "Art"]),
           Row(StudentB, [class_one |-> "Bio"])>>)

\* A with a padded id and a placeholder class; B flagged with no points
RosterFlagOnly ==
    File(FullHeader,
         <<Row(" 900123456 ", [class_one |-> "Math", class_2 |-> "nan",
                               hipaa_consent |-> " yes "]),
           Row(StudentB, [class_one |-> "Bio", has_extra |-> "Yes"])>>)

\* B holds a point but its flag says unclaimed
RosterPointsOnly ==
    File(FullHeader,
         <<Row(StudentA, [class_one |-> "Math", class_2 |-> "Art"]),
           Row(StudentB, [class_one |-> "Bio", extra_credit_class_1 |-> "1.0",
                          has_extra |-> "False", hipaa_consent |-> "True"])>>)

\* a roster without the optional status and extra-credit columns
RosterMinimal ==
    File(MinimalHeader,
         <<Row(StudentA, [class_one |-> "Math", class_2 |-> "Art"]),
           Row(StudentB, [class_one |-> "Bio"])>>)

InitialRosters == {RosterPlain, RosterFlagOnly, RosterPointsOnly, RosterMinimal}

MentalLabels == {"Depression", "Stress", "Suicidal", "Anxiety"}

Scores(dep, stress, suicidal, anxiety) ==
    [l \in MentalLabels |->
        CASE l = "Depression" -> dep [] l = "Stress" -> stress
          [] l = "Suicidal" -> suicidal [] OTHER -> anxiety]

Emotions(sadness, fear) == [sadness |-> sadness, fear |-> fear, joy |-> 5]

Text(id, blank, words, keywords, patterns, mental, segments, emotions) ==
    [id |-> id, blank |-> blank, words |-> words, keywords |-> keywords,
     patterns |-> patterns, mental |-> mental, segments |-> segments,
     emotions |-> emotions, academic |-> [LABEL_0 |-> 70, LABEL_1 |-> 30]]

TextBlank == Text("blank", TRUE, 0, {}, {}, Scores(0, 0, 0, 0), << >>, Emotions(0, 0))

TextShort == Text("short", FALSE, 49, {}, {}, Scores(10, 20, 2, 10), <<1>>, Emotions(10, 5))

TextCalm == Text("calm", FALSE, 50, {}, {}, Scores(10, 20, 2, 55), <<1, 2>>, Emotions(10, 5))

\* the spec's example: a keyword, depression 75, sadness 80, raw 8
TextExample ==
    Text("example", FALSE, 60, {"want to die"}, {}, Scores(75, 20, 8, 10), <<8, 3>>,
         Emotions(80, 10))

\* one risky clause diluted in a long text
TextDiluted ==
    Text("diluted", FALSE, 60, {"kill myself"}, {}, Scores(30, 20, 45, 10), <<85, 4>>,
         Emotions(40, 10))

\* indirect phrasing under high stress, no keyword
TextIndirect ==
    Text("indirect", FALSE, 60, {}, {"walk into traffic"}, Scores(30, 85, 8, 10), << >>,
         Emotions(20, 75))

\* raw 45 lifted over the threshold by the +15 rule
TextBoosted ==
    Text("boosted", FALSE, 60, {}, {}, Scores(72, 20, 45, 10), <<40>>, Emotions(75, 10))

AllTexts == {TextBlank, TextShort, TextCalm, TextExample, TextDiluted, TextIndirect,
             TextBoosted}

Deployment(multi, enabled, fernet, labels) ==
    [MENTAL_IS_MULTI_LABEL |-> multi, ALERT_ENCRYPTION_ENABLED |-> enabled,
     fernet |-> fernet, mental_labels |-> labels]

DefaultDeployment == Deployment(TRUE, TRUE, TRUE, MentalLabels)

Deployments ==
    {Deployment(m, e, f, l) :
        m \in BOOLEAN, e \in BOOLEAN, f \in BOOLEAN,
        l \in {MentalLabels, MentalLabels \ {"Suicidal"}}}


(***************************************************************************)
(* Request handlers.  A handler starts on an idle thread, takes one step   *)
(* per access to shared state, and ends in "done" holding its response.    *)
(***************************************************************************)
Error(op, v) == [op |-> op, status |-> v.err, detail |-> v.detail]

Finish(w, response) ==
    /\ pc' = [pc EXCEPT ![w] = "done"]
    /\ resp' = [resp EXCEPT ![w] = response]

Begin(w) ==
    /\ pc[w] = "idle"
    /\ calls < MaxCalls
    /\ calls' = calls + 1

\* POST /validate-student
validate_student_endpoint(w, student_id) ==
    /\ Begin(w)
    /\ LET student == validate_student_id(rosterFile, student_id, TRUE)
       IN IF student.err # 0
          THEN Finish(w, Error("validate", student))
          ELSE Finish(w, [op |-> "validate", status |-> 200, valid |-> TRUE,
                          student_id |-> student.student_id,
                          classes |-> student.classes,
                          has_extra |-> student.has_extra,
                          has_consent |-> student.has_consent])
    /\ req' = [req EXCEPT ![w] = [op |-> "validate", student_id |-> student_id]]
    /\ UNCHANGED <<authVars, config, rosterFile, alertFiles, RECENT_ANALYSES, df,
                   awarded, consentSaved>>

\* POST /extra-credit: validate_student_id, then on to _increment_extra_credit
extra_credit_endpoint(w, student_id, class_key, points) ==
    /\ Begin(w)
    /\ req' = [req EXCEPT ![w] = [op |-> "extra-credit", student_id |-> student_id,
                                  class_key |-> class_key, points |-> points]]
    /\ LET student == validate_student_id(rosterFile, student_id, FALSE)
       IN IF student.err # 0
          THEN Finish(w, Error("extra-credit", student))
          ELSE /\ pc' = [pc EXCEPT ![w] = "increment_load"]
               /\ resp' = resp
    /\ UNCHANGED <<authVars, config, rosterFile, alertFiles, RECENT_ANALYSES, df,
                   awarded, consentSaved>>

\* _increment_extra_credit: load the roster, run the checks, update the frame
IncrementLoad(w) ==
    /\ pc[w] = "increment_load"
    /\ LET r == _increment_extra_credit(rosterFile, req[w].student_id,
                                        req[w].class_key, req[w].points)
       IN IF r.err # 0
          THEN /\ Finish(w, Error("extra-credit", r))
               /\ UNCHANGED <<df, req>>
          ELSE /\ pc' = [pc EXCEPT ![w] = "increment_write"]
               /\ df' = [df EXCEPT ![w] = r.df]
               /\ req' = [req EXCEPT ![w] =
                            [op |-> "extra-credit", student_id |-> req[w].student_id,
                             points |-> req[w].points,
                             class_key |-> r.class_key, class_name |-> r.class_name,
                             extra_credit_column |-> r.extra_credit_column,
                             total_points |-> r.total_points, idx |-> r.idx]]
               /\ resp' = resp
    /\ UNCHANGED <<authVars, config, rosterFile, alertFiles, RECENT_ANALYSES, calls,
                   awarded, consentSaved>>

\* _increment_extra_credit: df.to_csv, then the endpoint's response
IncrementWrite(w) ==
    /\ pc[w] = "increment_write"
    /\ rosterFile' = ToCsv(df[w])
    /\ Finish(w, [op |-> "extra-credit", status |-> 200,
                  student_id |-> req[w].student_id,
                  class_key |-> req[w].class_key,
                  class_name |-> req[w].class_name,
                  extra_credit_column |-> req[w].extra_credit_column,
                  points_awarded |-> 1,
                  has_extra |-> TRUE,
                  total_points |-> req[w].total_points])
    /\ awarded' = [awarded EXCEPT ![Strip(req[w].student_id)] = @ + 1]
    /\ UNCHANGED <<authVars, config, alertFiles, RECENT_ANALYSES, req, df, calls, consentSaved>>

\* the input validation of analyze_endpoint: "" when the request passes
AnalyzeRejectionNoMinimum(text, consent) ==
    IF text.blank THEN "Text must not be empty."
    ELSE IF ~consent THEN "HIPAA consent must be acknowledged before submission."
    ELSE ""

AnalyzeRejection(text, consent) ==
    IF text.blank THEN "Text must not be empty."
    ELSE IF ~consent THEN "HIPAA consent must be acknowledged before submission."
    ELSE IF text.words < MIN_RESPONSE_WORDS THEN "Text is too short."
    ELSE ""

\* POST /analyze up to the consent update: roster check and input validation
analyze_endpoint(w, student_id, text, consent) ==
    /\ Begin(w)
    /\ req' = [req EXCEPT ![w] = [op |-> "analyze", source |-> "api",
                                  student_id |-> student_id, text |-> text,
                                  consent |-> consent]]
    /\ LET student == validate_student_id(rosterFile, student_id, FALSE)
       IN IF student.err # 0
          THEN Finish(w, Error("analyze", student))
          ELSE IF AnalyzeRejection(text, consent) # ""
          THEN Finish(w, [op |-> "analyze", status |-> 400,
                          detail |-> AnalyzeRejection(text, consent)])
          ELSE /\ pc' = [pc EXCEPT ![w] = "consent_load"]
               /\ resp' = resp
    /\ UNCHANGED <<authVars, config, rosterFile, alertFiles, RECENT_ANALYSES, df,
                   awarded, consentSaved>>

\* _set_student_consent: load the roster and set the flag in the frame; an
\* HTTPException is swallowed by analyze_endpoint, which goes on to score
ConsentLoad(w) ==
    /\ pc[w] = "consent_load"
    /\ LET r == _set_student_consent(rosterFile, req[w].student_id, TRUE)
       IN IF r.err # 0
          THEN /\ pc' = [pc EXCEPT ![w] = "analyze_text"]
               /\ df' = df
          ELSE /\ pc' = [pc EXCEPT ![w] = "consent_write"]
               /\ df' = [df EXCEPT ![w] = r.df]
    /\ UNCHANGED <<authVars, config, rosterFile, alertFiles, RECENT_ANALYSES, req, resp, calls,
                   awarded, consentSaved>>

\* _set_student_consent: df.to_csv
ConsentWrite(w) ==
    /\ pc[w] = "consent_write"
    /\ rosterFile' = ToCsv(df[w])
    /\ pc' = [pc EXCEPT ![w] = "analyze_text"]
    /\ consentSaved' = consentSaved \cup {Strip(req[w].student_id)}
    /\ UNCHANGED <<authVars, config, alertFiles, RECENT_ANALYSES, req, df, resp, calls, awarded>>

\* POST /submit (web form): roster check and blank-text check, no consent
\* and no word minimum, then straight to scoring
handle_submission(w, student_id, text) ==
    /\ Begin(w)
    /\ req' = [req EXCEPT ![w] = [op |-> "submit", source |-> "web-form",
                                  student_id |-> student_id, text |-> text]]
    /\ LET student == validate_student_id(rosterFile, student_id, FALSE)
       IN IF student.err # 0
          THEN Finish(w, Error("submit", student))
          ELSE IF text.blank
          THEN Finish(w, [op |-> "submit", status |-> 400,
                          detail |-> "Please enter student's text before submitting."])
          ELSE /\ pc' = [pc EXCEPT ![w] = "analyze_text"]
               /\ resp' = resp
    /\ UNCHANGED <<authVars, config, rosterFile, alertFiles, RECENT_ANALYSES, df,
                   awarded, consentSaved>>

\* alert_<timestamp>_<token>: a name no earlier alert has
FreshBaseName == (Cardinality(alertFiles) \div 2) + 1

\* analyze_student_text, sealing included
AnalyzeText(w) ==
    /\ pc[w] = "analyze_text"
    /\ LET result == analyze_student_text(config, req[w].text, FreshBaseName)
       IN /\ alertFiles' = alertFiles \cup result.written
          /\ req' = [req EXCEPT ![w] = [op |-> req[w].op, source |-> req[w].source,
                                        student_id |-> req[w].student_id,
                                        text |-> req[w].text,
                                        consent |-> (req[w].op = "analyze"),
                                        result |-> result]]
    /\ pc' = [pc EXCEPT ![w] = "record"]
    /\ UNCHANGED <<authVars, config, rosterFile, RECENT_ANALYSES, df, resp, calls,
                   awarded, consentSaved>>

HistoryEntry(source, text, result, student_id) ==
    [source |-> source,
     student_id |-> IF student_id = "" THEN "N/A" ELSE student_id,
     text |-> text.id,
     academic_stress |-> result.academic_stress,
     mental_health |-> result.mental_health,
     emotions |-> result.emotions,
     mental_health_flags |-> result.mental_health_flags,
     alert_metadata |-> result.alert_metadata,
     high_risk |-> result.alert_metadata.sealed]

\* record_analysis run without interruption: append, then pop(0) when over
\* capacity
AppendBounded(history, entry) ==
    LET longer == Append(history, entry)
    IN IF Len(longer) > MAX_ANALYSIS_HISTORY THEN Tail(longer) ELSE longer

\* record_analysis: RECENT_ANALYSES.append(entry); no lock is held, another
\* thread may run before the length check
RecordAnalysis(w) ==
    /\ pc[w] = "record"
    /\ RECENT_ANALYSES' =
         Append(RECENT_ANALYSES,
                HistoryEntry(req[w].source, req[w].text, req[w].result, req[w].student_id))
    /\ pc' = [pc EXCEPT ![w] = "trim"]
    /\ UNCHANGED <<authVars, config, rosterFile, alertFiles, req, df, resp, calls,
                   awarded, consentSaved>>

\* record_analysis: pop(0) when the list is over capacity; then the
\* handler's response
TrimHistory(w) ==
    /\ pc[w] = "trim"
    /\ RECENT_ANALYSES' =
         IF Len(RECENT_ANALYSES) > MAX_ANALYSIS_HISTORY
         THEN Tail(RECENT_ANALYSES) ELSE RECENT_ANALYSES
    /\ Finish(w, [op |-> req[w].op, status |-> 200,
                  student_id |-> req[w].student_id,
                  result |-> req[w].result])
    /\ UNCHANGED <<authVars, config, rosterFile, alertFiles, req, df, calls, awarded, consentSaved>>

\* the response has gone out; the thread is free again
Return(w) ==
    /\ pc[w] = "done"
    /\ pc' = [pc EXCEPT ![w] = "idle"]
    /\ req' = [req EXCEPT ![w] = NoReq]
    /\ df' = [df EXCEPT ![w] = NoDf]
    /\ resp' = [resp EXCEPT ![w] = NoResp]
    /\ UNCHANGED <<authVars, config, rosterFile, alertFiles, RECENT_ANALYSES, calls,
                   awarded, consentSaved>>

\* sessions minted in one behaviour
MaxSessions == 2

FreshToken == tokensIssued + 1

LoadCredentials ==
    _load_therapist_credentials(credFile, THERAPIST_AUTH_CACHE, THERAPIST_AUTH_MTIME)

\* POST /therapist-login
therapist_login(w, username, password) ==
    /\ pc[w] = "idle"
    /\ tokensIssued < MaxSessions
    /\ req' = [req EXCEPT ![w] = [op |-> "login", username |-> username,
                                  password |-> password]]
    /\ LET loaded == LoadCredentials
           authed == _validate_therapist_credentials(loaded.records, Strip(username),
                                                     Strip(password))
       IN /\ THERAPIST_AUTH_CACHE' = loaded.cache
          /\ THERAPIST_AUTH_MTIME' = loaded.mtime
          /\ IF authed
             THEN /\ THERAPIST_SESSIONS' =
                       _issue_therapist_session(THERAPIST_SESSIONS, FreshToken,
                                                Strip(username))
                  /\ tokensIssued' = tokensIssued + 1
                  /\ Finish(w, [op |-> "login", status |-> 303,
                                set_cookie |-> FreshToken])
             ELSE /\ UNCHANGED <<THERAPIST_SESSIONS, tokensIssued>>
                  /\ Finish(w, [op |-> "login", status |-> 401,
                                set_cookie |-> NoToken])
    /\ UNCHANGED <<config, rosterFile, alertFiles, RECENT_ANALYSES, df, calls,
                   awarded, consentSaved, credFile>>

\* POST /therapist-logout
therapist_logout(w, cookie) ==
    /\ pc[w] = "idle"
    /\ req' = [req EXCEPT ![w] = [op |-> "logout", cookie |-> cookie]]
    /\ THERAPIST_SESSIONS' = _kill_therapist_session(THERAPIST_SESSIONS, cookie)
    /\ Finish(w, [op |-> "logout", status |-> 303, set_cookie |-> NoToken])
    /\ UNCHANGED <<config, rosterFile, alertFiles, RECENT_ANALYSES, df, calls,
                   awarded, consentSaved, credFile, THERAPIST_AUTH_CACHE,
                   THERAPIST_AUTH_MTIME, tokensIssued>>

\* GET /therapist
therapist_dashboard(w, cookie, credentials) ==
    /\ pc[w] = "idle"
    /\ req' = [req EXCEPT ![w] = [op |-> "dashboard", cookie |-> cookie,
                                  credentials |-> credentials]]
    /\ LET loaded == LoadCredentials
           auth == _authenticate_therapist(loaded.records, THERAPIST_SESSIONS, cookie,
                                           credentials, FreshToken)
           is_first_responder == auth.record.first_responder
       IN /\ auth.token # NoToken => tokensIssued < MaxSessions
          /\ THERAPIST_AUTH_CACHE' = loaded.cache
          /\ THERAPIST_AUTH_MTIME' = loaded.mtime
          /\ THERAPIST_SESSIONS' = auth.sessions
          /\ tokensIssued' = IF auth.token # NoToken THEN tokensIssued + 1
                             ELSE tokensIssued
          /\ IF auth.record = NoRecord
             THEN Finish(w, [op |-> "dashboard", status |-> 303, entries |-> << >>,
                             viewer |-> NoRecord, set_cookie |-> NoToken])
             ELSE IF RECENT_ANALYSES = << >>
             THEN Finish(w, [op |-> "dashboard", status |-> 503, entries |-> << >>,
                             viewer |-> auth.record, set_cookie |-> NoToken])
             ELSE Finish(w, [op |-> "dashboard", status |-> 200,
                             entries |-> Reversed(ViewEntries(RECENT_ANALYSES,
                                                              is_first_responder)),
                             viewer |-> auth.record,
                             set_cookie |-> auth.token])
    /\ UNCHANGED <<config, rosterFile, alertFiles, RECENT_ANALYSES, df, calls,
                   awarded, consentSaved, credFile>>

(***************************************************************************)
(* The ledger under concurrent requests.                                   *)
(***************************************************************************)
StudentIdInputs == {StudentA, " 900123456 ", "999999999", ""}

\* <<student id, class key, points>>
ClaimInputs ==
    {<<StudentA, "class_one", 1>>, <<" 900123456 ", "Class_One", 1>>,
     <<StudentA, "class_2", 1>>, <<StudentB, "class_one", 1>>,
     <<StudentA, "class_9", 1>>, <<StudentA, "", 1>>, <<StudentA, "class_one", 2>>,
     <<"999999999", "class_one", 1>>}

\* <<student id, text, consent>>
AnalyzeInputs ==
    {<<StudentA, TextExample, TRUE>>, <<StudentB, TextExample, TRUE>>,
     <<StudentA, TextBlank, TRUE>>, <<StudentA, TextExample, FALSE>>,
     <<StudentA, TextShort, TRUE>>, <<"999999999", TextExample, TRUE>>}

\* data/therapists.csv: one general therapist, one first responder
TherapistFile ==
    [exists |-> TRUE, mtime |-> 1,
     rows |-> <<[username |-> "alice", password |-> "pw1", therapist_id |-> "T1",
                 therapist_name |-> "Alice A", first_responder |-> ""],
                [username |-> "Rita", password |-> " pw2 ", therapist_id |-> "T2",
                 therapist_name |-> "Rita R", first_responder |-> "Yes"]>>]

InitWorkers ==
    /\ alertFiles = {}
    /\ RECENT_ANALYSES = << >>
    /\ pc = [w \in Workers |-> "idle"]
    /\ req = [w \in Workers |-> NoReq]
    /\ df = [w \in Workers |-> NoDf]
    /\ resp = [w \in Workers |-> NoResp]
    /\ calls = 0
    /\ awarded = [s \in StudentIds |-> 0]
    /\ consentSaved = {}
    /\ credFile = TherapistFile
    /\ THERAPIST_AUTH_CACHE = << >>
    /\ THERAPIST_AUTH_MTIME = 0
    /\ THERAPIST_SESSIONS = << >>
    /\ tokensIssued = 0

Init ==
    /\ config = DefaultDeployment
    /\ rosterFile \in InitialRosters
    /\ InitWorkers

Next ==
    \E w \in Workers :
        \/ \E s \in StudentIdInputs : validate_student_endpoint(w, s)
        \/ \E c \in ClaimInputs : extra_credit_endpoint(w, c[1], c[2], c[3])
        \/ IncrementLoad(w)
        \/ IncrementWrite(w)
        \/ \E a \in AnalyzeInputs : analyze_endpoint(w, a[1], a[2], a[3])
        \/ ConsentLoad(w)
        \/ ConsentWrite(w)
        \/ AnalyzeText(w)
        \/ RecordAnalysis(w)
        \/ TrimHistory(w)
        \/ Return(w)

Spec == Init /\ [][Next]_vars


(***************************************************************************)
(* The same handlers with ledger access serialized (the lock section 5 of  *)
(* the design asks for, which the code does not take): at most one thread  *)
(* is inside a handler at a time.  Used to tell what fails only by         *)
(* overlap from what fails in a single call.                               *)
(***************************************************************************)
SerialNext ==
    /\ Next
    /\ \A v, w \in Workers :
         (pc'[v] \notin {"idle", "done"} /\ pc'[w] \notin {"idle", "done"}) => v = w

SerialSpec == Init /\ [][SerialNext]_vars

(***************************************************************************)
(* The ledger as stored: what a fresh load of the roster file shows.       *)
(***************************************************************************)
RowIn(file, s) ==
    LET frame == _load_roster_dataframe(file).df
    IN frame.rows[FirstMatch(frame, s)]

FlagIn(file, s) == _parse_bool_flag(RowIn(file, s)["has_extra"])

ConsentIn(file, s) == _parse_bool_flag(RowIn(file, s)["hipaa_consent"])

PointsIn(file, s, col) == _parse_extra_credit(RowIn(file, s)[col])

TotalIn(file, s) ==
    SumOver([c \in Range(ROSTER_EXTRA_CREDIT_COLUMNS) |-> PointsIn(file, s, c)],
            Range(ROSTER_EXTRA_CREDIT_COLUMNS))

StoredFlag(s) == FlagIn(rosterFile, s)

StoredConsent(s) == ConsentIn(rosterFile, s)

StoredPoints(s, col) == PointsIn(rosterFile, s, col)

StoredTotal(s) == TotalIn(rosterFile, s)

ALREADY_CLAIMED == "Extra credit already claimed for this student."

\* thread w takes a step that ends its call
Finishes(w) == pc[w] # "done" /\ pc'[w] = "done"

SharedUnchanged == UNCHANGED <<rosterFile, RECENT_ANALYSES, alertFiles>>

(***************************************************************************)
(* C1.  Of the claimExtraCredit calls made concurrently for one student    *)
(* at most one succeeds: no student is ever answered "claimed" twice.      *)
(***************************************************************************)
C1_OneClaimPerStudent == \A s \in StudentIds : awarded[s] <= 1

(***************************************************************************)
(* C2.  No write-back loses another operation's update: once a consent     *)
(* write-back or a claim has completed for a student, the stored table     *)
(* shows it, whatever other ledger operation overlapped it.                *)
(***************************************************************************)
C2_NoLostUpdate ==
    \A s \in StudentIds :
        /\ s \in consentSaved => StoredConsent(s)
        /\ awarded[s] >= 1 => StoredFlag(s) /\ StoredTotal(s) >= 1

(***************************************************************************)
(* C3.  A claim with a known student, a valid class key and points = 1     *)
(* whose check finds the stored total >= 1 or the stored flag set ends     *)
(* with AlreadyClaimed and writes nothing; either condition suffices.      *)
(***************************************************************************)
C3_AlreadyClaimedRejected ==
    [][\A w \in Workers :
         (/\ pc[w] = "increment_load"
          /\ pc'[w] # "increment_load"
          /\ Lower(Strip(req[w].class_key)) \in Range(ROSTER_CLASS_COLUMNS)
          /\ req[w].points = 1
          /\ FirstMatch(_load_roster_dataframe(rosterFile).df, Strip(req[w].student_id)) # 0
          /\ \/ StoredTotal(Strip(req[w].student_id)) >= 1
             \/ StoredFlag(Strip(req[w].student_id)))
         => /\ pc'[w] = "done"
            /\ resp'[w].status = 400
            /\ resp'[w].detail = ALREADY_CLAIMED
            /\ rosterFile' = rosterFile
            /\ awarded' = awarded]_vars

\* a claim was refused for a student whose flag and total disagree
C3_Witness ==
    \E w \in Workers :
        /\ pc[w] = "done"
        /\ resp[w].op = "extra-credit"
        /\ resp[w].status = 400
        /\ resp[w].detail = ALREADY_CLAIMED
        /\ req[w].student_id = StudentB
        /\ StoredFlag(StudentB) # (StoredTotal(StudentB) >= 1)

(***************************************************************************)
(* C4.  The write-back of a successful claim changes the stored table in   *)
(* exactly this way: the named slot of the named student is one higher,    *)
(* that student's flag is set, the returned total is the slot's new stored *)
(* total, and every other slot, every consent flag and every other         *)
(* student's record are as they were stored before.                        *)
(***************************************************************************)
C4_ClaimChangesOnlyItsSlot ==
    [][\A w \in Workers :
         (pc[w] = "increment_write" /\ pc'[w] = "done")
         => LET target == Strip(req[w].student_id)
                slot == req[w].extra_credit_column
            IN /\ PointsIn(rosterFile', target, slot) = StoredPoints(target, slot) + 1
               /\ resp'[w].total_points = PointsIn(rosterFile', target, slot)
               /\ FlagIn(rosterFile', target)
               /\ \A s \in StudentIds :
                    /\ ConsentIn(rosterFile', s) = StoredConsent(s)
                    /\ s # target => FlagIn(rosterFile', s) = StoredFlag(s)
                    /\ \A c \in Range(ROSTER_EXTRA_CREDIT_COLUMNS) :
                         (s # target \/ c # slot)
                            => PointsIn(rosterFile', s, c) = StoredPoints(s, c)]_vars

(***************************************************************************)
(* C5.  A stored claimed flag never goes back from true to false and no    *)
(* class's stored extra-credit total ever decreases.                       *)
(***************************************************************************)
C5_FlagAndPointsMonotonic ==
    [][\A s \in StudentIds :
         /\ StoredFlag(s) => FlagIn(rosterFile', s)
         /\ \A c \in Range(ROSTER_EXTRA_CREDIT_COLUMNS) :
              PointsIn(rosterFile', s, c) >= StoredPoints(s, c)]_vars

(***************************************************************************)
(* C6.  When analyze (consent = true) has returned successfully, the       *)
(* student's stored consent flag is true.                                  *)
(***************************************************************************)
C6_ConsentStoredAfterAnalyze ==
    \A w \in Workers :
        (pc[w] = "done" /\ resp[w].op = "analyze" /\ resp[w].status = 200)
        => StoredConsent(Strip(resp[w].student_id))

(***************************************************************************)
(* C7.  A call with invalid input (analyze: blank text, no consent, too    *)
(* few words; claim: empty or unknown class key, points # 1) ends in an    *)
(* error response, and no step of it changes the roster, the history or    *)
(* the alert artifacts.                                                    *)
(***************************************************************************)
InvalidInput(r) ==
    \/ /\ r.op = "analyze"
       /\ r.text.blank \/ ~r.consent \/ r.text.words < MIN_RESPONSE_WORDS
    \/ /\ r.op = "extra-credit"
       /\ \/ Lower(Strip(r.class_key)) \notin Range(ROSTER_CLASS_COLUMNS)
          \/ r.points # 1

C7_InvalidInputMutatesNothing ==
    [][\A w \in Workers :
         /\ (pc'[w] # pc[w] /\ pc[w] # "done" /\ InvalidInput(req'[w]))
            => /\ SharedUnchanged
               /\ pc'[w] \in {"done", "increment_load"}
         /\ (Finishes(w) /\ InvalidInput(req'[w])) => resp'[w].status >= 400]_vars

\* each kind of invalid input has been refused
C7_Witness ==
    /\ \E w \in Workers :
         /\ pc[w] = "done" /\ req[w].op = "analyze"
         /\ ~req[w].text.blank /\ req[w].consent
         /\ req[w].text.words < MIN_RESPONSE_WORDS
         /\ resp[w].status = 400
    /\ \E w \in Workers :
         /\ pc[w] = "done" /\ req[w].op = "extra-credit"
         /\ req[w].points # 1
         /\ resp[w].status = 400


(***************************************************************************)
(* Scoring and sealing across deployments: one request at a time, every    *)
(* text, every combination of label mode, sealing switch, encryption       *)
(* library and model vocabulary.                                           *)
(***************************************************************************)
InitRisk ==
    /\ config \in Deployments
    /\ rosterFile = RosterPlain
    /\ InitWorkers

NextRisk ==
    \E w \in {"w1"} :
        \/ \E t \in AllTexts, c \in BOOLEAN : analyze_endpoint(w, StudentA, t, c)
        \/ ConsentLoad(w)
        \/ ConsentWrite(w)
        \/ \E t \in AllTexts : handle_submission(w, StudentB, t)
        \/ AnalyzeText(w)
        \/ RecordAnalysis(w)
        \/ TrimHistory(w)
        \/ Return(w)

RiskSpec == InitRisk /\ [][NextRisk]_vars

(***************************************************************************)
(* The therapist desk: submissions arrive, staff log in and out and open   *)
(* the dashboard.                                                          *)
(***************************************************************************)
\* <<username, password>>
LoginInputs ==
    {<<"alice", "pw1">>, <<"Rita", "pw2">>, <<"alice", "bad">>, <<"", "pw1">>,
     <<"T1", "pw1">>, <<" alice ", " pw1 ">>, <<"alice", "">>, <<"bob", "pw1">>}

CookieInputs == 0..(MaxSessions + 1)

CredentialInputs ==
    {NoCredentials, Basic("t2", "pw2"), Basic("alice", "bad"), Basic("alice", " pw1 ")}

InitDesk ==
    /\ config \in {DefaultDeployment, Deployment(TRUE, TRUE, FALSE, MentalLabels)}
    /\ rosterFile = RosterPlain
    /\ InitWorkers

NextDesk ==
    \E w \in {"w1"} :
        \/ \E t \in {TextCalm, TextExample} : analyze_endpoint(w, StudentA, t, TRUE)
        \/ ConsentLoad(w)
        \/ ConsentWrite(w)
        \/ AnalyzeText(w)
        \/ RecordAnalysis(w)
        \/ TrimHistory(w)
        \/ \E l \in LoginInputs : therapist_login(w, l[1], l[2])
        \/ \E t \in CookieInputs : therapist_logout(w, t)
        \/ \E t \in CookieInputs, c \in CredentialInputs : therapist_dashboard(w, t, c)
        \/ Return(w)

DeskSpec == InitDesk /\ [][NextDesk]_vars


(***************************************************************************)
(* Results of analyses in flight: thread w holds a result once scoring is  *)
(* done, until its response has gone out.                                  *)
(***************************************************************************)
HasResult(w) ==
    \/ pc[w] \in {"record", "trim"}
    \/ pc[w] = "done" /\ req[w].op \in {"analyze", "submit"} /\ resp[w].status = 200

FlagsSuicidal(flags) == \E k \in DOMAIN flags : Lower(k) = "suicidal"

SealingWorks == config.ALERT_ENCRYPTION_ENABLED /\ config.fernet

(***************************************************************************)
(* C8.  A result carries an AlertRecord exactly when the engine is in      *)
(* multi-label mode, the flag set has the suicidal label and sealing is    *)
(* enabled and available; an analysis writes one ciphertext/key pair or    *)
(* nothing; single-label mode yields no flag set, asks for no sealing and  *)
(* leaves no artifact.                                                     *)
(***************************************************************************)
C8_AlertIffFlaggedAndSealable ==
    /\ \A w \in Workers :
         HasResult(w) =>
           LET r == req[w].result
           IN /\ r.alert_metadata.sealed
                   <=> /\ config.MENTAL_IS_MULTI_LABEL
                       /\ FlagsSuicidal(r.mental_health_flags)
                       /\ SealingWorks
              /\ r.seal_requests <= 1
              /\ Cardinality(r.written) = IF r.alert_metadata.sealed THEN 2 ELSE 0
              /\ r.written \subseteq alertFiles
              /\ ~config.MENTAL_IS_MULTI_LABEL
                   => /\ ~r.has_flags
                      /\ r.mental_health_flags = << >>
                      /\ r.seal_requests = 0
    /\ ~config.MENTAL_IS_MULTI_LABEL => alertFiles = {}
    /\ Cardinality(alertFiles) <= 2 * calls

\* results with and without an AlertRecord are at hand: a sealed one, and a
\* flagged one that could not be sealed
C8_Witness ==
    \E w \in Workers :
        /\ HasResult(w)
        /\ req[w].result.alert_metadata.sealed
        /\ Len(RECENT_ANALYSES) >= 1
        /\ ~HasAlert(RECENT_ANALYSES[1])

(***************************************************************************)
(* C9.  With sealing disabled or the encryption library missing, sealing   *)
(* yields nothing and writes no artifact, and the analysis goes on: its     *)
(* flag set is the one it would have with sealing at work and has the      *)
(* suicidal label, and its entry is appended to the history.               *)
(***************************************************************************)
FlagsWithSealing(text) ==
    analyze_student_text([config EXCEPT !.ALERT_ENCRYPTION_ENABLED = TRUE,
                                        !.fernet = TRUE],
                         text, 1).mental_health_flags

SealedWithSealing(text) ==
    analyze_student_text([config EXCEPT !.ALERT_ENCRYPTION_ENABLED = TRUE,
                                        !.fernet = TRUE],
                         text, 1).alert_metadata.sealed

C9_SealingOffDoesNotBlock ==
    /\ [](~SealingWorks =>
            /\ alertFiles = {}
            /\ \A i \in DOMAIN RECENT_ANALYSES : ~HasAlert(RECENT_ANALYSES[i])
            /\ \A w \in Workers :
                 HasResult(w) =>
                   /\ ~req[w].result.alert_metadata.sealed
                   /\ req[w].result.mental_health_flags = FlagsWithSealing(req[w].text)
                   /\ SealedWithSealing(req[w].text)
                        => FlagsSuicidal(req[w].result.mental_health_flags))
    /\ [][\A w \in Workers :
            (~SealingWorks /\ pc[w] \in {"analyze_text", "record", "trim"} /\ pc'[w] # pc[w])
            => CASE pc[w] = "analyze_text" -> pc'[w] = "record"
                 [] pc[w] = "record" ->
                      /\ pc'[w] = "trim"
                      /\ Len(RECENT_ANALYSES') = Len(RECENT_ANALYSES) + 1
                      /\ RECENT_ANALYSES'[Len(RECENT_ANALYSES')].mental_health_flags
                           = req[w].result.mental_health_flags
                      /\ RECENT_ANALYSES'[Len(RECENT_ANALYSES')].text = req[w].text.id
                 [] OTHER ->
                      /\ pc'[w] = "done"
                      /\ resp'[w].status = 200
                      /\ Len(RECENT_ANALYSES') >= 1
                      /\ RECENT_ANALYSES'[Len(RECENT_ANALYSES')].mental_health_flags
                           = req[w].result.mental_health_flags
                      /\ RECENT_ANALYSES'[Len(RECENT_ANALYSES')].text = req[w].text.id]_vars

\* a flagged analysis was recorded although it could not be sealed
C9_Witness ==
    /\ ~SealingWorks
    /\ \E w \in Workers :
         /\ pc[w] = "done" /\ req[w].op = "analyze" /\ resp[w].status = 200
         /\ FlagsSuicidal(req[w].result.mental_health_flags)
    /\ \E i \in DOMAIN RECENT_ANALYSES :
         FlagsSuicidal(RECENT_ANALYSES[i].mental_health_flags)

(***************************************************************************)
(* C10.  An authenticated dashboard request is shown exactly the history   *)
(* entries that carry an AlertRecord when its credential is a first        *)
(* responder, and exactly the whole history buffer otherwise.              *)
(***************************************************************************)
C10_DashboardVisibility ==
    \A w \in Workers :
        (pc[w] = "done" /\ resp[w].op = "dashboard" /\ resp[w].viewer # NoRecord)
        => /\ resp[w].status \in {200, 503}
           /\ resp[w].status = 503 <=> RECENT_ANALYSES = << >>
           /\ Range(resp[w].entries) =
                IF resp[w].viewer.first_responder
                THEN {RECENT_ANALYSES[i] : i \in {j \in DOMAIN RECENT_ANALYSES :
                                                   RECENT_ANALYSES[j].alert_metadata # NoAlert}}
                ELSE Range(RECENT_ANALYSES)
           /\ Len(resp[w].entries) =
                IF resp[w].viewer.first_responder
                THEN Cardinality({j \in DOMAIN RECENT_ANALYSES :
                                    RECENT_ANALYSES[j].alert_metadata # NoAlert})
                ELSE Len(RECENT_ANALYSES)

\* a first responder was shown the one alerted entry of a history that also
\* holds an entry without alert
C10_Witness ==
    \E w \in Workers :
        /\ pc[w] = "done" /\ resp[w].op = "dashboard" /\ resp[w].status = 200
        /\ resp[w].viewer.first_responder
        /\ Len(RECENT_ANALYSES) = 2
        /\ Len(resp[w].entries) = 1
        /\ HasAlert(resp[w].entries[1])


(***************************************************************************)
(* Steps of the therapist desk: thread w answers a request of kind op in   *)
(* one step.                                                               *)
(***************************************************************************)
Answers(w, op) == pc[w] = "idle" /\ pc'[w] = "done" /\ req'[w].op = op

NewSessions == DOMAIN THERAPIST_SESSIONS' \ DOMAIN THERAPIST_SESSIONS

(***************************************************************************)
(* C11.  A token resolves to username u exactly when a successful login    *)
(* of u minted it and no logout of it followed.  Step by step: a session   *)
(* stays, with its user, through every step but the logout of its own      *)
(* token; a logout removes its token and nothing else, and changes         *)
(* nothing when the token is unknown; a session appears only for the       *)
(* never-used token a successful login (or HTTP-basic sign-in) hands out,  *)
(* under the name signed in with; a refused login creates none.            *)
(***************************************************************************)
C11_SessionsFollowLoginAndLogout ==
    [][/\ \A t \in DOMAIN THERAPIST_SESSIONS :
            \/ _active_therapist_session(THERAPIST_SESSIONS', t) = THERAPIST_SESSIONS[t]
            \/ \E w \in Workers : Answers(w, "logout") /\ req'[w].cookie = t
       /\ \A w \in Workers :
            Answers(w, "logout") =>
              /\ DOMAIN THERAPIST_SESSIONS' = DOMAIN THERAPIST_SESSIONS \ {req'[w].cookie}
              /\ _active_therapist_session(THERAPIST_SESSIONS', req'[w].cookie) = ""
              /\ req'[w].cookie \notin DOMAIN THERAPIST_SESSIONS
                   => THERAPIST_SESSIONS' = THERAPIST_SESSIONS
       /\ \A t \in NewSessions :
            /\ t > tokensIssued
            /\ \E w \in Workers :
                 \/ /\ Answers(w, "login")
                    /\ resp'[w].status = 303
                    /\ resp'[w].set_cookie = t
                    /\ _active_therapist_session(THERAPIST_SESSIONS', t)
                         = Strip(req'[w].username)
                 \/ /\ Answers(w, "dashboard")
                    /\ req'[w].credentials.given
                    /\ _active_therapist_session(THERAPIST_SESSIONS', t)
                         = req'[w].credentials.username
       /\ \A w \in Workers :
            Answers(w, "login") =>
              IF resp'[w].status = 303
              THEN /\ NewSessions = {resp'[w].set_cookie}
                   /\ DOMAIN THERAPIST_SESSIONS \subseteq DOMAIN THERAPIST_SESSIONS'
              ELSE THERAPIST_SESSIONS' = THERAPIST_SESSIONS]_vars

\* two sessions were minted by logins and the first has been logged out:
\* the second still resolves to its user
C11_Witness ==
    \E w \in Workers :
        /\ pc[w] = "done" /\ req[w].op = "logout" /\ req[w].cookie = 1
        /\ _active_therapist_session(THERAPIST_SESSIONS, 1) = ""
        /\ _active_therapist_session(THERAPIST_SESSIONS, 2) = "Rita"


(***************************************************************************)
(* Sign-in attempts: a login form, or HTTP-basic credentials on a          *)
(* dashboard request that carries no live session.                         *)
(***************************************************************************)
SignsIn(w) ==
    \/ Answers(w, "login")
    \/ /\ Answers(w, "dashboard")
       /\ req'[w].credentials.given
       /\ _active_therapist_session(THERAPIST_SESSIONS, req'[w].cookie) = ""

SuppliedName(r) == IF r.op = "login" THEN r.username ELSE r.credentials.username

SuppliedPassword(r) == IF r.op = "login" THEN r.password ELSE r.credentials.password

\* the sign-in was accepted: the login redirects to the dashboard, the
\* dashboard request gets a session
Accepted(w) ==
    IF req'[w].op = "login" THEN resp'[w].status = 303 ELSE NewSessions # {}

\* the store holds a record under the lower-cased name whose secret is the
\* password, both taken as supplied
MatchesAsSupplied(store, username, password) ==
    /\ username # "" /\ password # ""
    /\ Lower(username) \in DOMAIN store
    /\ store[Lower(username)].password = password

\* the same with surrounding whitespace trimmed off name and password first
MatchesTrimmed(store, username, password) ==
    /\ username # "" /\ password # ""
    /\ Lower(Strip(username)) \in DOMAIN store
    /\ store[Lower(Strip(username))].password = Strip(password)

(***************************************************************************)
(* C12 as stated.  authenticate answers true exactly when both arguments   *)
(* are non-empty, the store holds a record under the lower-cased username  *)
(* (or staff-id alias) and the supplied password equals that record's      *)
(* secret; otherwise it answers false and no session is created.           *)
(***************************************************************************)
C12_AuthenticateAsStated ==
    [][\A w \in Workers :
         SignsIn(w) =>
           /\ Accepted(w) <=> MatchesAsSupplied(LoadCredentials.records,
                                                SuppliedName(req'[w]),
                                                SuppliedPassword(req'[w]))
           /\ ~Accepted(w) => THERAPIST_SESSIONS' = THERAPIST_SESSIONS]_vars

(***************************************************************************)
(* C12 amended.  authenticate answers true exactly when both arguments     *)
(* are non-empty, the store holds a record under the trimmed, lower-cased  *)
(* username (or staff-id alias) and the trimmed password equals that       *)
(* record's secret; otherwise it answers false and no session is created.  *)
(***************************************************************************)
C12_AuthenticateTrimmed ==
    [][\A w \in Workers :
         SignsIn(w) =>
           /\ Accepted(w) <=> MatchesTrimmed(LoadCredentials.records,
                                             SuppliedName(req'[w]),
                                             SuppliedPassword(req'[w]))
           /\ ~Accepted(w) => THERAPIST_SESSIONS' = THERAPIST_SESSIONS]_vars

\* a login under the staff-id alias was accepted, and so was a password
\* supplied with surrounding blanks
C12_Witness ==
    /\ \E w \in Workers :
         /\ pc[w] = "done" /\ req[w].op = "login"
         /\ req[w].password = " pw1 " /\ resp[w].status = 303
    /\ tokensIssued = 2
    /\ \E t \in DOMAIN THERAPIST_SESSIONS : THERAPIST_SESSIONS[t] = "T1"


(***************************************************************************)
(* Scoring over a grid of classifier outputs.  Each behaviour starts with  *)
(* one web-form submission accepted and about to be scored; the scores     *)
(* straddle every threshold the rules compare against, the text has a      *)
(* keyword, a semantic pattern, both or neither, and its pieces are        *)
(* none, one too short to keep, or a mix of short and long ones.           *)
(***************************************************************************)
PartsGrid ==
    {<< >>,
     <<[chars |-> 19, suicidal |-> 90]>>,
     <<[chars |-> 12, suicidal |-> 95], [chars |-> 20, suicidal |-> 40],
       [chars |-> 64, suicidal |-> 58]>>}

\* a text by what the engine computes from it; anxiety sits just under the
\* flag threshold when fear is low and on it otherwise
GridText(raw, dep, stress, sad, fear, keywords, patterns, parts) ==
    [id |-> <<raw, dep, stress, sad, fear, keywords, patterns, Len(parts)>>,
     blank |-> FALSE, words |-> 60, keywords |-> keywords, patterns |-> patterns,
     mental |-> Scores(dep, stress, raw, IF fear < 70 THEN 49 ELSE 50),
     parts |-> parts,
     segments |-> [i \in DOMAIN _segment_text(parts) |-> _segment_text(parts)[i].suicidal],
     emotions |-> Emotions(sad, fear),
     academic |-> [LABEL_0 |-> 70, LABEL_1 |-> 30]]

GridTexts ==
    {GridText(raw, dep, stress, sad, fear, k, p, parts) :
        raw \in {0, 5, 6, 45, 55, 61}, dep \in {59, 60, 69, 70},
        stress \in {69, 70, 79, 80}, sad \in {59, 60, 69, 70}, fear \in {69, 70},
        k \in {{}, {"want to die"}}, p \in {{}, {"walk into traffic"}},
        parts \in PartsGrid}

\* multi-label engines with and without a suicidal label
ScoreDeployments ==
    {Deployment(TRUE, TRUE, TRUE, MentalLabels),
     Deployment(TRUE, TRUE, TRUE, MentalLabels \ {"Suicidal"})}

InitScore ==
    /\ config \in ScoreDeployments
    /\ rosterFile = RosterPlain
    /\ alertFiles = {}
    /\ RECENT_ANALYSES = << >>
    /\ pc = [w \in Workers |-> IF w = "w1" THEN "analyze_text" ELSE "idle"]
    /\ \E t \in GridTexts :
         req = [w \in Workers |->
                  IF w = "w1"
                  THEN [op |-> "submit", source |-> "web-form",
                        student_id |-> StudentB, text |-> t]
                  ELSE NoReq]
    /\ df = [w \in Workers |-> NoDf]
    /\ resp = [w \in Workers |-> NoResp]
    /\ calls = 1
    /\ awarded = [s \in StudentIds |-> 0]
    /\ consentSaved = {}
    /\ credFile = TherapistFile
    /\ THERAPIST_AUTH_CACHE = << >>
    /\ THERAPIST_AUTH_MTIME = 0
    /\ THERAPIST_SESSIONS = << >>
    /\ tokensIssued = 0

NextScore == AnalyzeText("w1") \/ RecordAnalysis("w1") \/ TrimHistory("w1")

ScoreSpec == InitScore /\ [][NextScore]_vars

\* the suicidal score the boost starts from: the whole-text score after the
\* segment scan, 0 when the engine has no such label
PreBoostScore(cfg, text) ==
    _get_score_case_insensitive(SegmentScan(MentalScores(cfg, text), ChunkMax(cfg, text)),
                                "suicidal")

\* the suicidal score a finished analysis reports
FinalScore(result) == _get_score_case_insensitive(result.mental_health, "suicidal")

(***************************************************************************)
(* C13.  Whatever the raw suicidal score, the depression, stress, sadness  *)
(* and fear scores and the text, the boosted score lies between the raw    *)
(* score and max(raw, 60).                                                 *)
(***************************************************************************)
C13_BoostWithinBounds ==
    \A w \in Workers :
        HasResult(w) =>
          LET raw == PreBoostScore(config, req[w].text)
              boosted == FinalScore(req[w].result)
          IN /\ raw <= boosted
             /\ boosted <= Max(raw, 60)
             /\ req[w].result.alert_metadata.sealed
                  => /\ req[w].result.alert_metadata.suicidal_raw = raw
                     /\ req[w].result.alert_metadata.suicidal_boosted = boosted

\* a boost stopped by the cap (55 + 15 held at 60) and a raw score over the
\* cap passed through
C13_Witness ==
    \E w \in Workers :
        /\ HasResult(w)
        /\ \/ /\ PreBoostScore(config, req[w].text) = 55
              /\ req[w].text.mental["Depression"] = 70
              /\ req[w].text.emotions["sadness"] = 70
              /\ FinalScore(req[w].result) = 60
           \/ /\ PreBoostScore(config, req[w].text) = 61
              /\ req[w].text.mental["Stress"] = 80
              /\ FinalScore(req[w].result) = 61
        /\ pc[w] = "done"


\* the suicidal scores of the pieces long enough to be kept as segments
RetainedScores(text) ==
    {text.parts[i].suicidal : i \in {j \in DOMAIN text.parts : text.parts[j].chars >= 20}}

(***************************************************************************)
(* C14.  With a suicidal label in the engine, the suicidal score before    *)
(* boosting is the larger of the whole-text score and the maximum over     *)
(* the retained segments: the segment maximum when a segment scores        *)
(* higher than the whole text, never less than the whole-text score.       *)
(***************************************************************************)
C14_SegmentMaxDominates ==
    \A w \in Workers :
        (HasResult(w) /\ "Suicidal" \in config.mental_labels) =>
          LET text == req[w].text
              whole == text.mental["Suicidal"]
              pre == PreBoostScore(config, text)
              alert == req[w].result.alert_metadata
          IN /\ pre >= whole
             /\ \A x \in RetainedScores(text) : pre >= x
             /\ pre \in {whole} \cup RetainedScores(text)
             /\ (\E x \in RetainedScores(text) : x > whole)
                  => pre \in RetainedScores(text)
             /\ FinalScore(req[w].result) >= pre
             /\ alert.sealed
                  => /\ alert.suicidal_raw = pre
                     /\ alert.suicidal_chunk_max # -1
                          => /\ alert.suicidal_chunk_max \in RetainedScores(text)
                             /\ \A x \in RetainedScores(text) : alert.suicidal_chunk_max >= x

\* a kept segment outscored the whole text and set the pre-boost score,
\* while a higher-scoring piece too short to keep was passed over
C14_Witness ==
    \E w \in Workers :
        /\ HasResult(w)
        /\ "Suicidal" \in config.mental_labels
        /\ req[w].text.mental["Suicidal"] = 45
        /\ Len(req[w].text.parts) = 3
        /\ PreBoostScore(config, req[w].text) = 58
        /\ req[w].result.alert_metadata.sealed
        /\ req[w].result.alert_metadata.suicidal_raw = 58


(***************************************************************************)
(* C15.  In multi-label mode a label is in the flag set exactly when its   *)
(* final score is at or over the active threshold (50), or it is the       *)
(* suicidal label, depression is at or over the fallback threshold (70)    *)
(* and the text has an explicit keyword; every percentage in the flag set  *)
(* is at or over the active threshold, and a label flagged by its own      *)
(* score carries that score.                                               *)
(***************************************************************************)
C15_FlagSetMatchesThreshold ==
    \A w \in Workers :
        (HasResult(w) /\ config.MENTAL_IS_MULTI_LABEL) =>
          LET final == req[w].result.mental_health
              flags == req[w].result.mental_health_flags
              forced == /\ _get_score_case_insensitive(final, "depression") >= 70
                        /\ req[w].text.keywords # {}
          IN /\ req[w].result.has_flags
             /\ DOMAIN flags \subseteq DOMAIN final
             /\ \A l \in DOMAIN final :
                  l \in DOMAIN flags <=> \/ final[l] >= 50
                                         \/ Lower(l) = "suicidal" /\ forced
             /\ \A l \in DOMAIN flags :
                  /\ flags[l] >= 50
                  /\ final[l] >= 50 => flags[l] = final[l]

\* the suicidal label was flagged by the fallback rule alone, at its final
\* score of 5, while anxiety at 49 stayed out and stress at 69 went in
C15_Witness ==
    \E w \in Workers :
        /\ HasResult(w)
        /\ "Suicidal" \in config.mental_labels
        /\ FinalScore(req[w].result) = 5
        /\ DOMAIN req[w].result.mental_health_flags = {"Suicidal", "Depression", "Stress"}
        /\ req[w].result.mental_health_flags["Suicidal"] = 70
        /\ req[w].result.mental_health["Anxiety"] = 49


(***************************************************************************)
(* The history buffer under concurrent submissions.  Behaviours start      *)
(* with up to MAX_ANALYSIS_HISTORY earlier entries in the buffer; sealing  *)
(* is switched off, so that no earlier entry has left an artifact.         *)
(***************************************************************************)
QuietDeployment == Deployment(TRUE, FALSE, TRUE, MentalLabels)

EarlierEntries ==
    {HistoryEntry("api", t, analyze_student_text(QuietDeployment, t, 1), StudentA) :
        t \in {TextCalm, TextExample}}

InitHistory ==
    /\ config = QuietDeployment
    /\ rosterFile = RosterPlain
    /\ alertFiles = {}
    /\ \E n \in 0..MAX_ANALYSIS_HISTORY : RECENT_ANALYSES \in [1..n -> EarlierEntries]
    /\ pc = [w \in Workers |-> "idle"]
    /\ req = [w \in Workers |-> NoReq]
    /\ df = [w \in Workers |-> NoDf]
    /\ resp = [w \in Workers |-> NoResp]
    /\ calls = 0
    /\ awarded = [s \in StudentIds |-> 0]
    /\ consentSaved = {}
    /\ credFile = TherapistFile
    /\ THERAPIST_AUTH_CACHE = << >>
    /\ THERAPIST_AUTH_MTIME = 0
    /\ THERAPIST_SESSIONS = << >>
    /\ tokensIssued = 0

NextHistory ==
    \E w \in Workers :
        \/ \E t \in {TextShort, TextBoosted} : handle_submission(w, StudentB, t)
        \/ AnalyzeText(w)
        \/ RecordAnalysis(w)
        \/ TrimHistory(w)
        \/ Return(w)

HistorySpec == InitHistory /\ [][NextHistory]_vars

\* the same with one submission handled at a time
SerialHistorySpec ==
    InitHistory
    /\ [][/\ NextHistory
          /\ \A v, w \in Workers :
               (pc'[v] \notin {"idle", "done"} /\ pc'[w] \notin {"idle", "done"})
               => v = w]_vars

\* the last n entries of a sequence, in order
LastEntries(seq, n) == SubSeq(seq, Len(seq) - n + 1, Len(seq))

(***************************************************************************)
(* C16.  When a record of an analysis completes, the buffer holds at most  *)
(* N = MAX_ANALYSIS_HISTORY entries; an append puts the new entry last     *)
(* and keeps the others in order; what the completed record leaves is the  *)
(* min(N, appended) most recent entries, the oldest being the one          *)
(* evicted; and nothing else changes the buffer.                           *)
(***************************************************************************)
C16_HistoryIsBoundedFifo ==
    [][/\ \A w \in Workers :
            (pc[w] = "record" /\ pc'[w] = "trim") =>
               RECENT_ANALYSES' =
                  RECENT_ANALYSES \o <<HistoryEntry(req[w].source, req[w].text,
                                                    req[w].result, req[w].student_id)>>
       /\ \A w \in Workers :
            (pc[w] = "trim" /\ pc'[w] = "done") =>
               /\ Len(RECENT_ANALYSES') <= MAX_ANALYSIS_HISTORY
               /\ RECENT_ANALYSES' =
                    LastEntries(RECENT_ANALYSES,
                                Min(MAX_ANALYSIS_HISTORY, Len(RECENT_ANALYSES)))
       /\ (\A w \in Workers : pc[w] \notin {"record", "trim"} \/ pc'[w] = pc[w])
            => RECENT_ANALYSES' = RECENT_ANALYSES]_vars

\* a record completed on a full buffer while another thread's entry was
\* already appended
C16_Overfull ==
    \E w \in Workers :
        /\ pc[w] = "done" /\ req[w].op = "submit" /\ resp[w].status = 200
        /\ Len(RECENT_ANALYSES) > MAX_ANALYSIS_HISTORY


(***************************************************************************)
(* Lookups against rosters in every condition: complete, with a padded id, *)
(* without a required column, without any student row, and missing.        *)
(***************************************************************************)
\* a roster without the first_name column
RosterNoFirstName ==
    File(FullHeader \ {"first_name"},
         <<Row(StudentA, [class_one |-> "Math"]), Row(StudentB, [class_one |-> "Bio"])>>)

\* the roster file in every condition: complete, with a padded id, without
\* a required column, with a header and no student row, and missing
InitLookup ==
    /\ config = DefaultDeployment
    /\ rosterFile \in {RosterPlain, RosterFlagOnly, RosterNoFirstName,
                       File(FullHeader, << >>),
                       [exists |-> FALSE, header |-> {}, rows |-> << >>]}
    /\ InitWorkers

NextLookup ==
    \E w \in Workers :
        \/ \E s \in {StudentA, " 900123456 ", StudentB, "999999999", "", "   "} :
              validate_student_endpoint(w, s)
        \/ Return(w)

LookupSpec == InitLookup /\ [][NextLookup]_vars

\* the ids the stored roster table holds, trimmed
RosterIds(file) ==
    {Strip(file.rows[i]["student_id"]) :
        i \in {j \in DOMAIN file.rows : "student_id" \in DOMAIN file.rows[j]}} \ {""}

LacksRequiredColumn(file) ==
    \E c \in {"first_name", "last_name", "student_id"} : c \notin file.header

NOT_FOUND == [op |-> "validate", status |-> 403, detail |-> "Student ID not recognized."]

Found(response, id) ==
    /\ response.status = 200
    /\ response.valid
    /\ response.student_id = id

(***************************************************************************)
(* C17 as stated.  A lookup returns the student's record when the trimmed  *)
(* id equals a roster id, fails with NotFound when it equals none, and     *)
(* fails with a conflict-type (server) error, whatever the id, when the    *)
(* table lacks a required column; no lookup changes the roster.            *)
(***************************************************************************)
C17_LookupAsStated ==
    [][\A w \in Workers :
         Answers(w, "validate") =>
           /\ rosterFile' = rosterFile
           /\ IF LacksRequiredColumn(rosterFile)
              THEN resp'[w].status = 500
              ELSE IF Strip(req'[w].student_id) \in RosterIds(rosterFile)
              THEN Found(resp'[w], Strip(req'[w].student_id))
              ELSE resp'[w] = NOT_FOUND]_vars

(***************************************************************************)
(* C17 amended.  A lookup with a blank id is refused as invalid input      *)
(* before the roster is read.  With any other id it fails with a server    *)
(* error when the roster file is missing, lacks a required column or       *)
(* holds no student; otherwise it returns the student's record when the    *)
(* trimmed id equals a roster id and fails with NotFound when it equals    *)
(* none.  No lookup changes the roster.                                    *)
(***************************************************************************)
C17_LookupOfGivenId ==
    [][\A w \in Workers :
         Answers(w, "validate") =>
           /\ rosterFile' = rosterFile
           /\ IF Strip(req'[w].student_id) = ""
              THEN resp'[w].status = 400
              ELSE IF \/ ~rosterFile.exists
                      \/ LacksRequiredColumn(rosterFile)
                      \/ RosterIds(rosterFile) = {}
              THEN resp'[w].status = 500
              ELSE IF Strip(req'[w].student_id) \in RosterIds(rosterFile)
              THEN Found(resp'[w], Strip(req'[w].student_id))
              ELSE resp'[w] = NOT_FOUND]_vars

\* a padded id found its padded roster row, and a lookup failed on the
\* roster without first names
C17_Witness ==
    \/ /\ rosterFile = RosterFlagOnly
       /\ pc["w1"] = "done" /\ req["w1"].student_id = " 900123456 "
       /\ resp["w1"].status = 200
       /\ pc["w2"] = "done" /\ resp["w2"] = NOT_FOUND
    \/ /\ rosterFile = RosterNoFirstName
       /\ pc["w1"] = "done" /\ req["w1"].student_id = StudentA
       /\ resp["w1"].status = 500
       /\ pc["w2"] = "done" /\ resp["w2"].status = 400


(***************************************************************************)
(* Write-back and re-read of the roster table.                             *)
(***************************************************************************)
\* thread w writes its frame to the roster file in this step
WritesBack(w) ==
    /\ pc[w] \in {"increment_write", "consent_write"}
    /\ pc'[w] # pc[w]

\* the frame a fresh load of the given file yields
Reread(file) == _load_roster_dataframe(file).df

(***************************************************************************)
(* C18.  Writing the roster table back and re-reading it preserves, for    *)
(* every student row, every class's extra-credit total and the claimed     *)
(* flag: the values parsed from the re-read table equal the values parsed  *)
(* from the in-memory frame that was written.                              *)
(***************************************************************************)
C18_WriteThenRereadPreserves ==
    [][\A w \in Workers :
         WritesBack(w) =>
           /\ _load_roster_dataframe(rosterFile').err = 0
           /\ DOMAIN Reread(rosterFile').rows = DOMAIN df[w].rows
           /\ \A i \in DOMAIN df[w].rows :
                /\ Strip(ToText(Reread(rosterFile').rows[i]["student_id"]))
                     = Strip(ToText(df[w].rows[i]["student_id"]))
                /\ _parse_bool_flag(Reread(rosterFile').rows[i]["has_extra"])
                     = _parse_bool_flag(df[w].rows[i]["has_extra"])
                /\ \A c \in Range(ROSTER_EXTRA_CREDIT_COLUMNS) :
                     _parse_extra_credit(Reread(rosterFile').rows[i][c])
                       = _parse_extra_credit(df[w].rows[i][c])]_vars

\* a claim was written back: the re-read table shows the new total of the
\* class and the flag the frame held
C18_Witness ==
    \E w \in Workers :
        /\ pc[w] = "done"
        /\ req[w].op = "extra-credit"
        /\ resp[w].status = 200
        /\ df[w] # NoDf
        /\ Reread(rosterFile) = Reread(ToCsv(df[w]))
        /\ PointsIn(rosterFile, Strip(req[w].student_id), req[w].extra_credit_column)
             = req[w].total_points
        /\ req[w].total_points >= 1
        /\ FlagIn(rosterFile, Strip(req[w].student_id))


(***************************************************************************)
(* The boost rules read off a finished analysis and the text it scored.    *)
(***************************************************************************)
\* a distress signal co-occurs in the text's scores
Distressed(text) ==
    \/ text.mental["Depression"] >= 60
    \/ text.mental["Stress"] >= 70
    \/ text.emotions["sadness"] >= 60
    \/ text.emotions["fear"] >= 70

(***************************************************************************)
(* C19.  When the text contains an explicit suicidal keyword or an         *)
(* indirect semantic pattern and a distress signal co-occurs, the boosted  *)
(* suicidal score is at least min(60, raw + 10); a keyword alone, without  *)
(* a semantic pattern, is enough.                                          *)
(***************************************************************************)
C19_KeywordOrPatternBoosts ==
    \A w \in Workers :
        (/\ HasResult(w)
         /\ req[w].text.keywords # {} \/ req[w].text.patterns # {}
         /\ Distressed(req[w].text))
          => FinalScore(req[w].result) >= Min(60, PreBoostScore(config, req[w].text) + 10)

\* a text with a keyword, no semantic pattern and a distress signal was
\* scored and its suicidal score left at the raw value
C19_KeywordAloneUnboosted ==
    \E w \in Workers :
        /\ pc[w] = "done"
        /\ resp[w].status = 200
        /\ req[w].text.keywords # {}
        /\ req[w].text.patterns = {}
        /\ Distressed(req[w].text)
        /\ PreBoostScore(config, req[w].text) = 45
        /\ FinalScore(req[w].result) = 45

\* the largest of raw, raw + 15 under the depression-sadness rule, and 40
\* under the stress rule
BestOfRules(raw, text) ==
    Max(raw,
        Max(IF text.mental["Depression"] >= 70 /\ text.emotions["sadness"] >= 70
            THEN raw + 15 ELSE raw,
            IF text.mental["Stress"] >= 80 /\ raw > 5 THEN 40 ELSE raw))

(***************************************************************************)
(* C20.  For a text with no keyword and no semantic pattern the boosted    *)
(* suicidal score equals max(raw, min(60, B)), B the largest of raw,       *)
(* raw + 15 if depression >= 70 and sadness >= 70, and 40 if stress >= 80  *)
(* and raw > 5.  When neither rule fires the boosted score is raw, and a   *)
(* raw score above 60 passes through unchanged.                            *)
(***************************************************************************)
C20_BoostWithoutKeywordOrPattern ==
    \A w \in Workers :
        (/\ HasResult(w)
         /\ req[w].text.keywords = {}
         /\ req[w].text.patterns = {})
          => LET raw == PreBoostScore(config, req[w].text)
                 text == req[w].text
                 boosted == FinalScore(req[w].result)
             IN /\ boosted = Max(raw, Min(60, BestOfRules(raw, text)))
                /\ (/\ ~(text.mental["Depression"] >= 70 /\ text.emotions["sadness"] >= 70)
                    /\ ~(text.mental["Stress"] >= 80 /\ raw > 5))
                     => boosted = raw
                /\ raw > 60 => boosted = raw

\* the stress floor lifted a raw score of 6 to 40, with no keyword and no
\* pattern in the text
C20_Witness ==
    \E w \in Workers :
        /\ pc[w] = "done"
        /\ resp[w].status = 200
        /\ req[w].text.keywords = {}
        /\ req[w].text.patterns = {}
        /\ req[w].text.mental["Stress"] = 80
        /\ req[w].text.mental["Depression"] = 59
        /\ PreBoostScore(config, req[w].text) = 6
        /\ FinalScore(req[w].result) = 40


(***************************************************************************)
(* C21.  When the mental-health model's vocabulary has no suicidal label,  *)
(* the segment scan and the boost are skipped: the mental-health score set *)
(* the analysis returns is exactly what the model produced, no suicidal    *)
(* entry added and no score changed.                                       *)
(***************************************************************************)
C21_NoLabelNoBoost ==
    \A w \in Workers :
        (/\ HasResult(w)
         /\ KeysLike(MentalScores(config, req[w].text), "suicidal") = {})
          => req[w].result.mental_health = MentalScores(config, req[w].text)

\* a model without the suicidal label scored a text with depression and
\* sadness at 70, and the returned score set holds a suicidal entry of 15
C21_SuicidalEntryAdded ==
    \E w \in Workers :
        /\ pc[w] = "done"
        /\ resp[w].status = 200
        /\ "suicidal" \notin DOMAIN MentalScores(config, req[w].text)
        /\ KeysLike(MentalScores(config, req[w].text), "suicidal") = {}
        /\ "suicidal" \in DOMAIN req[w].result.mental_health
        /\ req[w].result.mental_health["suicidal"] = 15


(***************************************************************************)
(* C22.  Whenever a flagged analysis is not sealed, sealing switched off   *)
(* or the encryption library missing, a log event recording the omission   *)
(* is emitted before the analysis returns.                                 *)
(***************************************************************************)
C22_OmissionIsLogged ==
    \A w \in Workers :
        (/\ HasResult(w)
         /\ FlagsSuicidal(req[w].result.mental_health_flags)
         /\ ~req[w].result.alert_metadata.sealed)
          => "cannot encrypt high-risk submissions" \in Range(req[w].result.logged)

\* a flagged analysis returned unsealed with sealing switched off and
\* nothing in the log
C22_UnloggedOmission ==
    \E w \in Workers :
        /\ pc[w] = "done"
        /\ resp[w].status = 200
        /\ ~config.ALERT_ENCRYPTION_ENABLED
        /\ FlagsSuicidal(req[w].result.mental_health_flags)
        /\ ~req[w].result.alert_metadata.sealed
        /\ req[w].result.logged = << >>


(***************************************************************************)
(* Analyze requests under faults: the roster file may disappear between    *)
(* two accesses, and a classifier call may raise.                          *)
(***************************************************************************)
\* the file at STUDENT_ROSTER_PATH is removed by the operator
RosterFileRemoved ==
    /\ rosterFile.exists
    /\ rosterFile' = [exists |-> FALSE, header |-> {}, rows |-> << >>]
    /\ UNCHANGED <<authVars, config, alertFiles, RECENT_ANALYSES, pc, req, df, resp,
                   calls, awarded, consentSaved>>

\* a model call inside analyze_student_text raises: the exception leaves
\* the endpoint and the transport answers 500
ClassifierFails(w) ==
    /\ pc[w] = "analyze_text"
    /\ Finish(w, [op |-> req[w].op, status |-> 500, detail |-> "Internal Server Error"])
    /\ UNCHANGED <<authVars, config, rosterFile, alertFiles, RECENT_ANALYSES, req, df,
                   calls, awarded, consentSaved>>

InitFault ==
    /\ config = DefaultDeployment
    /\ rosterFile \in {RosterPlain, RosterFlagOnly}
    /\ InitWorkers

NextFault ==
    \/ RosterFileRemoved
    \/ \E w \in {"w1"} :
         \/ \E s \in {StudentA, StudentB}, t \in {TextExample, TextCalm} :
               analyze_endpoint(w, s, t, TRUE)
         \/ ConsentLoad(w)
         \/ ConsentWrite(w)
         \/ AnalyzeText(w)
         \/ ClassifierFails(w)
         \/ RecordAnalysis(w)
         \/ TrimHistory(w)
         \/ Return(w)

FaultSpec == InitFault /\ [][NextFault]_vars

\* thread w leaves the consent update of its analyze request in this step
LeavesConsentLoad(w) == pc[w] = "consent_load" /\ pc'[w] # "consent_load"

(***************************************************************************)
(* C23.  An error raised inside a core operation reaches the caller as a   *)
(* failure of that call: a ledger failure during the consent update of     *)
(* analyze makes the analyze call fail instead of continuing.              *)
(***************************************************************************)
C23_LedgerFailureFailsAnalyze ==
    [][\A w \in Workers :
         (/\ LeavesConsentLoad(w)
          /\ _set_student_consent(rosterFile, req[w].student_id, TRUE).err # 0)
           => /\ pc'[w] = "done"
              /\ resp'[w].status = _set_student_consent(rosterFile, req[w].student_id, TRUE).err]_vars

\* an analyze request answered 200 with a history entry although its
\* consent update found no roster file and wrote nothing
C23_AnalyzeContinuedAfterLedgerFailure ==
    \E w \in Workers :
        /\ pc[w] = "done"
        /\ req[w].op = "analyze"
        /\ resp[w].status = 200
        /\ df[w] = NoDf
        /\ ~rosterFile.exists
        /\ Strip(req[w].student_id) \notin consentSaved
        /\ Len(RECENT_ANALYSES) >= 1


\* the history holds an entry of the request thread w is handling
Recorded(w) ==
    \E i \in DOMAIN RECENT_ANALYSES :
        /\ RECENT_ANALYSES[i].student_id = req[w].student_id
        /\ RECENT_ANALYSES[i].text = req[w].text.id

(***************************************************************************)
(* C24.  Within one analyze request the consent flag is written only       *)
(* after the history entry has been appended, so a request whose           *)
(* classifier call fails leaves the history buffer and the stored consent  *)
(* flag unchanged: it has written no roster frame.                         *)
(***************************************************************************)
C24_ConsentWrittenAfterHistory ==
    [][\A w \in Workers :
         /\ (pc[w] = "consent_write" /\ pc'[w] # "consent_write") => Recorded(w)
         /\ (pc[w] = "analyze_text" /\ pc'[w] = "done")
              => /\ RECENT_ANALYSES' = RECENT_ANALYSES
                 /\ df[w] = NoDf]_vars

\* the first request failed in the classifier with the history still empty,
\* and the roster now stores the student's consent
C24_ConsentKeptAfterClassifierFailure ==
    /\ calls = 1
    /\ pc["w1"] = "done"
    /\ req["w1"].op = "analyze"
    /\ req["w1"].student_id = StudentB
    /\ resp["w1"].status = 500
    /\ RECENT_ANALYSES = << >>
    /\ rosterFile.exists
    /\ ConsentIn(rosterFile, StudentB)
    /\ ~ConsentIn(RosterPlain, StudentB)
    /\ ~ConsentIn(RosterFlagOnly, StudentB)


(***************************************************************************)
(* The credential file edited between requests: rewritten with or without  *)
(* a new modification time, emptied of usable rows, or removed.            *)
(***************************************************************************)
\* data/therapists.csv with the given modification time and alice's row
\* kept or dropped
EditedTherapistFile(mtime, with_alice) ==
    [exists |-> TRUE, mtime |-> mtime,
     rows |-> IF with_alice THEN TherapistFile.rows ELSE Tail(TherapistFile.rows)]

\* an edit of the file from outside the process
CredentialFileEdited ==
    /\ \A w \in Workers : pc[w] = "idle"
    /\ credFile' \in ({EditedTherapistFile(m, a) : m \in {1, 2}, a \in BOOLEAN}
                        \cup {[exists |-> TRUE, mtime |-> 1,
                               rows |-> <<[username |-> "carol", password |-> "",
                                           therapist_id |-> "T3", therapist_name |-> "",
                                           first_responder |-> ""]>>],
                              [exists |-> FALSE, mtime |-> 0, rows |-> << >>]})
                       \ {credFile}
    /\ UNCHANGED <<config, rosterFile, alertFiles, RECENT_ANALYSES, pc, req, df, resp,
                   calls, awarded, consentSaved, THERAPIST_AUTH_CACHE,
                   THERAPIST_AUTH_MTIME, THERAPIST_SESSIONS, tokensIssued>>

InitStore ==
    /\ config = QuietDeployment
    /\ rosterFile = RosterPlain
    /\ alertFiles = {}
    /\ RECENT_ANALYSES \in [1..1 -> EarlierEntries]
    /\ pc = [w \in Workers |-> "idle"]
    /\ req = [w \in Workers |-> NoReq]
    /\ df = [w \in Workers |-> NoDf]
    /\ resp = [w \in Workers |-> NoResp]
    /\ calls = 0
    /\ awarded = [s \in StudentIds |-> 0]
    /\ consentSaved = {}
    /\ credFile = TherapistFile
    /\ THERAPIST_AUTH_CACHE = << >>
    /\ THERAPIST_AUTH_MTIME = 0
    /\ THERAPIST_SESSIONS = << >>
    /\ tokensIssued = 0

NextStore ==
    \/ CredentialFileEdited
    \/ \E w \in {"w1"} :
         \/ \E l \in {<<"alice", "pw1">>, <<"Rita", "pw2">>, <<"alice", "bad">>} :
               therapist_login(w, l[1], l[2])
         \/ \E t \in CookieInputs : therapist_logout(w, t)
         \/ \E t \in CookieInputs, c \in {NoCredentials, Basic("alice", "pw1")} :
               therapist_dashboard(w, t, c)
         \/ Return(w)

StoreSpec == InitStore /\ [][NextStore]_vars

\* the records the credential file holds now
CurrentRecords ==
    IF credFile.exists THEN ReadCredentialRows(credFile.rows, << >>) ELSE << >>

\* the login of this step was judged against the given records
JudgedAgainst(w, records) ==
    resp'[w].status = 303
      <=> MatchesTrimmed(records, req'[w].username, req'[w].password)

(***************************************************************************)
(* C25 as stated.  When the credential file's modification time differs    *)
(* from the cached one the next load returns the file's current contents:  *)
(* a removed credential no longer authenticates, an added one does; when   *)
(* the file is absent the store is empty and every authentication fails;   *)
(* while the modification time is unchanged the cached records are         *)
(* returned.                                                               *)
(***************************************************************************)
C25_CacheFollowsMtime ==
    [][\A w \in Workers :
         Answers(w, "login") =>
           IF ~credFile.exists
           THEN /\ resp'[w].status = 401
                /\ THERAPIST_AUTH_CACHE' = << >>
           ELSE IF credFile.mtime # THERAPIST_AUTH_MTIME
           THEN /\ THERAPIST_AUTH_CACHE' = CurrentRecords
                /\ JudgedAgainst(w, CurrentRecords)
           ELSE /\ THERAPIST_AUTH_CACHE' = THERAPIST_AUTH_CACHE
                /\ JudgedAgainst(w, THERAPIST_AUTH_CACHE)]_vars

(***************************************************************************)
(* C25 amended.  The same, except that an empty cache is never reused:     *)
(* while the modification time is unchanged the cached records are         *)
(* returned if there are any, and the file is read again if the cache is   *)
(* empty.                                                                  *)
(***************************************************************************)
C25_NonEmptyCacheFollowsMtime ==
    [][\A w \in Workers :
         Answers(w, "login") =>
           IF ~credFile.exists
           THEN /\ resp'[w].status = 401
                /\ THERAPIST_AUTH_CACHE' = << >>
           ELSE IF credFile.mtime # THERAPIST_AUTH_MTIME \/ DOMAIN THERAPIST_AUTH_CACHE = {}
           THEN /\ THERAPIST_AUTH_CACHE' = CurrentRecords
                /\ THERAPIST_AUTH_MTIME' = credFile.mtime
                /\ JudgedAgainst(w, CurrentRecords)
           ELSE /\ THERAPIST_AUTH_CACHE' = THERAPIST_AUTH_CACHE
                /\ JudgedAgainst(w, THERAPIST_AUTH_CACHE)]_vars

\* alice signed in, her row was then removed under a new modification
\* time, and her next login was refused against the reloaded records
C25_Witness ==
    /\ pc["w1"] = "done"
    /\ req["w1"].op = "login"
    /\ req["w1"].username = "alice" /\ req["w1"].password = "pw1"
    /\ resp["w1"].status = 401
    /\ credFile = EditedTherapistFile(2, FALSE)
    /\ THERAPIST_AUTH_MTIME = 2
    /\ DOMAIN THERAPIST_AUTH_CACHE = {"rita", "t2"}
    /\ \E t \in DOMAIN THERAPIST_SESSIONS : THERAPIST_SESSIONS[t] = "alice"


(***************************************************************************)
(* Class listing and claiming, one request at a time, over rosters whose   *)
(* class cells are named, empty, blank or placeholders, and whose          *)
(* extra-swipe column is named, empty or missing.                          *)
(***************************************************************************)
InitClass ==
    /\ config = DefaultDeployment
    /\ rosterFile \in
         {RosterPlain, RosterFlagOnly,
          File(FullHeader \ {"extra_swipe"},
               <<Row(StudentA, [class_one |-> "Math", class_2 |-> "None"]),
                 Row(StudentB, [class_one |-> "Bio", class_2 |-> "   "])>>),
          File(FullHeader,
               <<Row(StudentA, [class_one |-> "Math", extra_swipe |-> "Swipe",
                                extra_credit_class_1 |-> "0"]),
                 Row(StudentB, [class_one |-> "NaN", extra_swipe |-> "Swipe"])>>)}
    /\ InitWorkers

NextClass ==
    \E w \in {"w1"} :
        \/ \E s \in {StudentA, StudentB} : validate_student_endpoint(w, s)
        \/ \E s \in {StudentA, StudentB},
              k \in {"class_one", "Class_One", "class_2", "class_3", "extra_swipe", "class_9"} :
              extra_credit_endpoint(w, s, k, 1)
        \/ IncrementLoad(w)
        \/ IncrementWrite(w)
        \/ Return(w)

ClassSpec == InitClass /\ [][NextClass]_vars

\* the text of a student's cell in the roster file, "" when the file has no
\* such column
CellIn(file, s, c) ==
    IF c \notin file.header THEN ""
    ELSE file.rows[CHOOSE i \in DOMAIN file.rows :
                       Strip(file.rows[i]["student_id"]) = s][c]

\* the cell names a class: not empty, not the placeholder nan or none
NamesClass(text) == Strip(text) # "" /\ Lower(Strip(text)) \notin {"nan", "none"}

\* a validateStudent call has answered with the student's record
Listing(w) == pc[w] = "done" /\ req[w].op = "validate" /\ resp[w].status = 200

(***************************************************************************)
(* C26.  The class list derived for a student contains an ordinary class   *)
(* slot exactly when the slot's name cell is non-empty and not the         *)
(* placeholder nan or none; the extra-swipe slot is listed under the       *)
(* fixed default label whenever its name cell is empty; each listed entry  *)
(* reports the slot's key and its current extra-credit total.              *)
(***************************************************************************)
C26_ClassListMatchesCells ==
    \A w \in Workers :
        Listing(w) =>
          /\ \A c \in Range(ROSTER_CLASS_COLUMNS) \ {"extra_swipe"} :
               c \in DOMAIN resp[w].classes
                 <=> NamesClass(CellIn(rosterFile, resp[w].student_id, c))
          /\ Strip(CellIn(rosterFile, resp[w].student_id, "extra_swipe")) = ""
               => /\ "extra_swipe" \in DOMAIN resp[w].classes
                  /\ resp[w].classes["extra_swipe"].name = EXTRA_SWIPE_DEFAULT_NAME
          /\ \A c \in DOMAIN resp[w].classes :
               /\ resp[w].classes[c].key = c
               /\ resp[w].classes[c].extra_credit_points
                    = PointsIn(rosterFile, resp[w].student_id, CLASS_TO_EXTRA_CREDIT[c])

\* the roster file has an extra_swipe column, the student's cell in it is
\* empty, and the list returned has no extra-swipe entry
C26_EmptySwipeCellNotListed ==
    \E w \in Workers :
        /\ Listing(w)
        /\ "extra_swipe" \in rosterFile.header
        /\ CellIn(rosterFile, resp[w].student_id, "extra_swipe") = ""
        /\ "extra_swipe" \notin DOMAIN resp[w].classes
        /\ "class_one" \in DOMAIN resp[w].classes

\* the class keys validateStudent lists for the student of w's request
ListedKeys(w) ==
    DOMAIN validate_student_id(rosterFile, req[w].student_id, TRUE).classes

\* thread w's claim is decided in this step, for a student with no prior claim
DecidesFirstClaim(w) ==
    /\ pc[w] = "increment_load"
    /\ pc'[w] # "increment_load"
    /\ req[w].points = 1
    /\ TotalIn(rosterFile, Strip(req[w].student_id)) = 0
    /\ ~FlagIn(rosterFile, Strip(req[w].student_id))

(***************************************************************************)
(* C27.  Class listing and claiming agree: for a student with no prior     *)
(* claim, claimExtraCredit(id, classKey, 1) succeeds exactly when classKey *)
(* is one of the class keys validateStudent lists for that student; a      *)
(* listed extra-swipe slot can be claimed, and a slot that is not listed   *)
(* is rejected.                                                            *)
(***************************************************************************)
C27_ListedIffClaimable ==
    [][\A w \in Workers :
         DecidesFirstClaim(w) =>
           (pc'[w] = "increment_write"
              <=> Lower(Strip(req[w].class_key)) \in ListedKeys(w))]_vars

\* a first claim on class_3 was answered 200 under the class name "nan":
\* the name cell is empty and validateStudent does not list the slot
C27_UnlistedClassClaimed ==
    \E w \in Workers :
        /\ pc[w] = "done"
        /\ req[w].op = "extra-credit"
        /\ req[w].class_key = "class_3"
        /\ resp[w].status = 200
        /\ resp[w].class_name = "nan"
        /\ awarded[Strip(req[w].student_id)] = 1
        /\ "class_3" \notin ListedKeys(w)


\* thread w appends the entry of its submission in this step
Records(w) == pc[w] = "record" /\ pc'[w] = "trim"

(***************************************************************************)
(* C28.  On the API analyze endpoint and on the web submission form, no    *)
(* analysis is run or appended to the history buffer unless the            *)
(* submission acknowledged consent and has at least the minimum word       *)
(* count: every history entry comes from a consenting submission of at     *)
(* least the minimum length.                                               *)
(***************************************************************************)
C28_OnlyConsentingLongEnoughRecorded ==
    [][\A w \in Workers :
         Records(w) =>
           /\ req[w].consent
           /\ req[w].text.words >= MIN_RESPONSE_WORDS]_vars

\* the history holds an entry of the web form for the 49-word text, sent
\* without any consent acknowledgement
C28_ShortUnconsentedRecorded ==
    /\ \E i \in DOMAIN RECENT_ANALYSES :
         /\ RECENT_ANALYSES[i].source = "web-form"
         /\ RECENT_ANALYSES[i].text = TextShort.id
         /\ RECENT_ANALYSES[i].student_id = StudentB
    /\ TextShort.words < MIN_RESPONSE_WORDS
    /\ StudentB \notin consentSaved
    /\ pc["w1"] = "done" /\ req["w1"].op = "submit" /\ resp["w1"].status = 200

(***************************************************************************)
(* C29.  Every recorded analysis whose flag set contains the suicidal      *)
(* label is marked high-risk in its history entry and is shown to a        *)
(* first-responder credential, also when sealing is disabled or            *)
(* unavailable and no AlertRecord was produced.                            *)
(***************************************************************************)
C29_FlaggedIsHighRiskAndShown ==
    /\ \A i \in DOMAIN RECENT_ANALYSES :
         FlagsSuicidal(RECENT_ANALYSES[i].mental_health_flags)
           => RECENT_ANALYSES[i].high_risk
    /\ \A w \in Workers :
         (/\ pc[w] = "done" /\ resp[w].op = "dashboard" /\ resp[w].status = 200
          /\ resp[w].viewer.first_responder)
           => \A i \in DOMAIN RECENT_ANALYSES :
                FlagsSuicidal(RECENT_ANALYSES[i].mental_health_flags)
                  => RECENT_ANALYSES[i] \in Range(resp[w].entries)

\* with the encryption library missing, a first responder opened the
\* dashboard and was shown nothing, the history holding a suicidal-flagged
\* entry that is not marked high-risk
C29_FlaggedEntryHidden ==
    \E w \in Workers :
        /\ ~SealingWorks
        /\ pc[w] = "done" /\ resp[w].op = "dashboard" /\ resp[w].status = 200
        /\ resp[w].viewer.first_responder
        /\ resp[w].entries = << >>
        /\ \E i \in DOMAIN RECENT_ANALYSES :
             /\ FlagsSuicidal(RECENT_ANALYSES[i].mental_health_flags)
             /\ ~RECENT_ANALYSES[i].high_risk


\* the request carries a live session token whose user the loaded store
\* still holds
LiveSession(r, store) ==
    /\ _active_therapist_session(THERAPIST_SESSIONS, r.cookie) # ""
    /\ Lower(Strip(_active_therapist_session(THERAPIST_SESSIONS, r.cookie)))
         \in DOMAIN store

\* the request carries no live session token and valid credentials
ValidCredentials(r, store) ==
    /\ _active_therapist_session(THERAPIST_SESSIONS, r.cookie) = ""
    /\ r.credentials.given
    /\ MatchesTrimmed(store, r.credentials.username, r.credentials.password)

====
